---- MODULE Spec2Model ----
(***************************************************************************)
(* mygekko-mqtt bridge: the polling path (RunGetter, pollCategories,       *)
(* processItem), the command path (RunSetter, handleSetCommand), the       *)
(* shared cancellation context, main's startup and shutdown path, the     *)
(* parser of format fields (parseFormatField), LoadFieldDefinitions and    *)
(* LoadConfig.                                                             *)
(*                                                                         *)
(* Go strings are modelled as sequences of one-character strings, so that  *)
(* strings.Split, strings.HasPrefix, strconv.Atoi, strconv.ParseFloat and  *)
(* fmt.Sprintf are computed character by character.                        *)
(***************************************************************************)
EXTENDS Integers, Sequences, FiniteSets, TLC

(***************************************************************************)
(* Bounds of the model.                                                    *)
(***************************************************************************)
\* number of poll ticks RunGetter is followed for
MaxTicks == 3
\* cfg.MyGekko.IntervalRounds ranges over 1..MaxRounds
MaxRounds == 2
\* number of inbound commands the handler is followed for
MaxCommands == 1

(***************************************************************************)
(* String literals.                                                        *)
(***************************************************************************)
S_blinds == <<"b","l","i","n","d","s">>
S_vents == <<"v","e","n","t","s">>
S_lights == <<"l","i","g","h","t","s">>
S_item0 == <<"i","t","e","m","0">>
S_group0 == <<"g","r","o","u","p","0">>
S_position == <<"p","o","s","i","t","i","o","n">>
S_reserved == <<"r","e","s","e","r","v","e","d">>
S_angle == <<"a","n","g","l","e">>
S_level == <<"l","e","v","e","l">>
S_mode == <<"m","o","d","e">>
S_get == <<"g","e","t">>
S_json == <<"j","s","o","n">>
S_time == <<"t","i","m","e">>
S_timestamp == <<"t","i","m","e","s","t","a","m","p">>
S_getter_online == <<"g","e","t","t","e","r","_","o","n","l","i","n","e">>
S_group == <<"g","r","o","u","p">>
S_true == <<"t","r","u","e">>
S_NaN == <<"N","a","N">>
S_setter_online == <<"s","e","t","t","e","r","_","o","n","l","i","n","e">>
S_set == <<"s","e","t">>
S_plus == <<"+">>
S_item1 == <<"i","t","e","m","1">>
S_root == <<"r">>
S_int == <<"i","n","t">>
S_enum == <<"e","n","u","m">>
S_float == <<"f","l","o","a","t">>
S_string == <<"s","t","r","i","n","g">>
S_null == <<"n","u","l","l">>
S_blob == <<"b","l","o","b">>
S_item == <<"i","t","e","m">>
S_name == <<"n","a","m","e">>

Digits == {"0","1","2","3","4","5","6","7","8","9"}

DigitVal(c) ==
  CASE c = "0" -> 0 [] c = "1" -> 1 [] c = "2" -> 2 [] c = "3" -> 3
    [] c = "4" -> 4 [] c = "5" -> 5 [] c = "6" -> 6 [] c = "7" -> 7
    [] c = "8" -> 8 [] c = "9" -> 9

(***************************************************************************)
(* Library functions the bridge calls.                                     *)
(***************************************************************************)
\* the whole string compared with the prefix
HasPrefix_Exact(s, prefix) == s = prefix

\* strings.HasPrefix(s, prefix)
HasPrefix(s, prefix) ==
  /\ Len(s) >= Len(prefix)
  /\ SubSeq(s, 1, Len(prefix)) = prefix

\* index of the first occurrence of the character sep in s, 0 if none
RECURSIVE IndexFrom(_, _, _)
IndexFrom(s, sep, i) ==
  IF i > Len(s) THEN 0
  ELSE IF s[i] = sep THEN i
  ELSE IndexFrom(s, sep, i + 1)

\* strings.Split(s, sep) for a one-character separator: always at least one
\* token; an empty s gives one empty token
RECURSIVE Split(_, _)
Split(s, sep) ==
  LET k == IndexFrom(s, sep, 1) IN
  IF k = 0 THEN <<s>>
  ELSE <<SubSeq(s, 1, k - 1)>> \o Split(SubSeq(s, k + 1, Len(s)), sep)

\* unicode.IsSpace for the characters that occur
IsSpace(c) == c \in {" ", "\t", "\n"}

\* strings.TrimLeftFunc(s, unicode.IsSpace)
RECURSIVE TrimLeft(_)
TrimLeft(s) ==
  IF Len(s) = 0 THEN s
  ELSE IF IsSpace(s[1]) THEN TrimLeft(Tail(s))
  ELSE s

\* strings.TrimRightFunc(s, unicode.IsSpace)
RECURSIVE TrimRight(_)
TrimRight(s) ==
  IF Len(s) = 0 THEN s
  ELSE IF IsSpace(s[Len(s)]) THEN TrimRight(SubSeq(s, 1, Len(s) - 1))
  ELSE s

\* strings.TrimSpace(s)
TrimSpace(s) == TrimRight(TrimLeft(s))

\* strings.SplitN(s, sep, 2) for a one-character separator: cut at the
\* first sep, or s alone
SplitN2(s, sep) ==
  LET k == IndexFrom(s, sep, 1) IN
  IF k = 0 THEN <<s>>
  ELSE <<SubSeq(s, 1, k - 1), SubSeq(s, k + 1, Len(s))>>

\* strings.Cut(s, sep) for a one-character separator
Cut(s, sep) ==
  LET k == IndexFrom(s, sep, 1) IN
  IF k = 0 THEN [before |-> s, after |-> <<>>, found |-> FALSE]
  ELSE [before |-> SubSeq(s, 1, k - 1), after |-> SubSeq(s, k + 1, Len(s)), found |-> TRUE]

\* the characters of the strings that get compared, in byte order
Alphabet ==
  <<"+", "/", "0", "1", "2", "3", "4", "5", "6", "7", "8", "9", "_",
    "a", "b", "c", "d", "e", "f", "g", "h", "i", "j", "k", "l", "m",
    "n", "o", "p", "q", "r", "s", "t", "u", "v", "w", "x", "y", "z">>

CharCode(c) == CHOOSE k \in 1..Len(Alphabet) : Alphabet[k] = c

\* a < b for Go strings: byte-wise, a proper prefix is smaller
RECURSIVE StrLess(_, _)
StrLess(a, b) ==
  IF Len(b) = 0 THEN FALSE
  ELSE IF Len(a) = 0 THEN TRUE
  ELSE IF a[1] # b[1] THEN CharCode(a[1]) < CharCode(b[1])
  ELSE StrLess(Tail(a), Tail(b))

\* x put into the ascending list xs
RECURSIVE SortedInsert(_, _)
SortedInsert(x, xs) ==
  IF Len(xs) = 0 THEN <<x>>
  ELSE IF StrLess(xs[1], x) THEN <<xs[1]>> \o SortedInsert(x, Tail(xs))
  ELSE <<x>> \o xs

\* slices.Sort(xs): ascending
RECURSIVE Sort(_)
Sort(xs) ==
  IF Len(xs) = 0 THEN <<>>
  ELSE SortedInsert(xs[1], Sort(Tail(xs)))

\* slices.Compact(xs): each run of equal neighbours becomes one element
RECURSIVE Compact(_)
Compact(xs) ==
  IF Len(xs) <= 1 THEN xs
  ELSE IF xs[1] = xs[2] THEN Compact(Tail(xs))
  ELSE <<xs[1]>> \o Compact(Tail(xs))

\* fmt.Sprintf with "%s/%s/..." : the parts joined by "/"
RECURSIVE JoinPath(_)
JoinPath(parts) ==
  IF Len(parts) = 0 THEN <<>>
  ELSE IF Len(parts) = 1 THEN parts[1]
  ELSE parts[1] \o <<"/">> \o JoinPath(Tail(parts))

AllDigits(s) == \A i \in 1..Len(s) : s[i] \in Digits

\* value of a digit string, base 10
RECURSIVE DigitsValue(_)
DigitsValue(s) ==
  IF Len(s) = 0 THEN 0
  ELSE 10 * DigitsValue(SubSeq(s, 1, Len(s) - 1)) + DigitVal(s[Len(s)])

\* a leading "+" or "-" removed
Unsigned(s) ==
  IF Len(s) > 0 /\ s[1] \in {"+", "-"} THEN Tail(s) ELSE s

IsNegative(s) == Len(s) > 0 /\ s[1] = "-"

(***************************************************************************)
(* Typed values (Go's `any` holding int, float64, string or int64).  A     *)
(* float is num * 10^-exp in lowest terms, or the special value NaN.       *)
(***************************************************************************)
IntValue(n) == [type |-> "int", num |-> n, exp |-> 0, special |-> "", str |-> <<>>]
StringValue(s) == [type |-> "string", num |-> 0, exp |-> 0, special |-> "", str |-> s]
NaNValue == [type |-> "float64", num |-> 0, exp |-> 0, special |-> "NaN", str |-> <<>>]
\* time.Now().Unix(): the clock is not modelled, the reading is one opaque int64
UnixNow == [type |-> "int64", num |-> 0, exp |-> 0, special |-> "now", str |-> <<>>]

\* num * 10^-exp with trailing zeros of the fraction removed
RECURSIVE FloatValue(_, _)
FloatValue(n, e) ==
  IF n = 0 THEN [type |-> "float64", num |-> 0, exp |-> 0, special |-> "", str |-> <<>>]
  ELSE IF e > 0 /\ n % 10 = 0 THEN FloatValue(n \div 10, e - 1)
  ELSE [type |-> "float64", num |-> n, exp |-> e, special |-> "", str |-> <<>>]

\* strconv.Atoi: [ok, value]; an optional sign and at least one digit
Atoi(s) ==
  LET d == Unsigned(s) IN
  IF Len(d) > 0 /\ AllDigits(d)
  THEN [ok |-> TRUE,
        value |-> IntValue(IF IsNegative(s) THEN 0 - DigitsValue(d) ELSE DigitsValue(d))]
  ELSE [ok |-> FALSE, value |-> IntValue(0)]

\* strconv.ParseFloat(s, 64): [ok, value]; "NaN" without a sign, or an
\* optional sign, digits and an optional "." with digits, at least one digit
ParseFloat(s) ==
  LET d == Unsigned(s)
      k == IndexFrom(d, ".", 1)
      ip == IF k = 0 THEN d ELSE SubSeq(d, 1, k - 1)
      fp == IF k = 0 THEN <<>> ELSE SubSeq(d, k + 1, Len(d))
      mag == DigitsValue(ip \o fp)
  IN
  IF s = S_NaN THEN [ok |-> TRUE, value |-> NaNValue]
  ELSE IF AllDigits(ip) /\ AllDigits(fp) /\ Len(ip) + Len(fp) > 0
  THEN [ok |-> TRUE,
        value |-> FloatValue(IF IsNegative(s) THEN 0 - mag ELSE mag, Len(fp))]
  ELSE [ok |-> FALSE, value |-> FloatValue(0, 0)]

\* Go's == on two interface values: same dynamic type and equal values;
\* NaN is not equal to itself
InterfaceEq(a, b) == a = b /\ a.special # "NaN"

\* encoding/json.Marshal of a map of values fails on NaN (and infinities)
JsonMarshalOk(data) == \A k \in DOMAIN data : data[k].special # "NaN"

\* m with key k set to v (Go: m[k] = v)
MapPut(m, k, v) == [x \in (DOMAIN m) \cup {k} |-> IF x = k THEN v ELSE m[x]]

EmptyMap == [x \in {} |-> 0]

(***************************************************************************)
(* Configuration, registry and device documents.                           *)
(***************************************************************************)
\* FieldDef{Name, Type}; Type "" marks a reserved slot (the parse of "null")
FieldDef(name, type) == [Name |-> name, Type |-> type]

\* the registry NewBridge receives: category -> ordered field list;
\* "lights" is polled but has no schema
FieldDefinitions ==
  (S_blinds :> <<FieldDef(S_position, "int"), FieldDef(S_reserved, ""),
                FieldDef(S_angle, "float")>>)
  @@ (S_vents :> <<FieldDef(S_level, "int"), FieldDef(S_mode, "string")>>)

\* cfg.MyGekko.IntervalItems / MainItems
IntervalItems == <<S_blinds, S_lights>>
MainItems == <<S_vents>>

\* name of the device, the first topic segment
GekkoName == <<"G">>

\* sumstate value strings the device reports for "blinds"
BlindsRaw ==
  { <<"5","0",";","r",";","4","5",".","5">>,
    <<"0","5","0",";","r",";","4","5",".","5","0">>,
    <<"7","5",";",";","4","5",".","5">>,
    <<"5","0",";","r",";">>,
    <<"7","5">>,
    <<"7","5",";","r",";","4","5",".","5",";","9">>,
    <<"q",";","r",";","1">>,
    <<"5","0",";","r",";","N","a","N">>,
    <<"7","5",";","r",";","q">> }

\* ... for "vents"
VentsRaw ==
  { <<"5","0",";","r">>,
    <<"7","5",";">>,
    <<"5","0",";","r",";","1">> }

\* ... for "lights"
LightsRaw == { <<"1">> }

\* one item of a status document: itemData, its "sumstate" member and the
\* "value" member of that
ItemWithValue(valueStr) ==
  [isMap |-> TRUE, hasSumstate |-> TRUE,
   sumstate |-> [isMap |-> TRUE, hasValue |-> TRUE, value |-> valueStr]]
ItemWithoutSumstate ==
  [isMap |-> TRUE, hasSumstate |-> FALSE,
   sumstate |-> [isMap |-> FALSE, hasValue |-> FALSE, value |-> <<>>]]
ItemWithoutValue ==
  [isMap |-> TRUE, hasSumstate |-> TRUE,
   sumstate |-> [isMap |-> TRUE, hasValue |-> FALSE, value |-> <<>>]]

\* what GetStatus([category]) puts under the category key: a map from item
\* key to item data; one document also holds a UI grouping node
StatusDocs(category) ==
  IF category = S_blinds
  THEN {(S_item0 :> ItemWithValue(r)) : r \in BlindsRaw}
       \cup {(S_item0 :> ItemWithoutSumstate), (S_item0 :> ItemWithoutValue)}
       \cup {(S_item0 :> ItemWithValue(<<"7","5">>))
             @@ (S_group0 :> ItemWithValue(<<"5","0",";","r",";","4","5",".","5">>))}
  ELSE IF category = S_vents
  THEN {(S_item0 :> ItemWithValue(r)) : r \in VentsRaw}
  ELSE {(S_item0 :> ItemWithValue(r)) : r \in LightsRaw}
       \cup {(S_item0 :> ItemWithoutSumstate)}

\* the categories a configuration may name
Categories == {S_blinds, S_vents, S_lights}

\* a device that can answer with every document above
Device ==
  (S_blinds :> StatusDocs(S_blinds)) @@ (S_vents :> StatusDocs(S_vents))
  @@ (S_lights :> StatusDocs(S_lights))

\* a device that answers with few documents: one well-formed, and for
\* "blinds" one whose first token is not a number
BridgeDocs(category) ==
  IF category = S_blinds
  THEN {(S_item0 :> ItemWithValue(<<"5","0",";","r",";","4","5",".","5">>)),
        (S_item0 :> ItemWithValue(<<"q">>))}
  ELSE IF category = S_vents
  THEN {(S_item0 :> ItemWithValue(<<"5","0",";","r">>))}
  ELSE {(S_item0 :> ItemWithValue(<<"1">>))}

SmallDevice ==
  (S_blinds :> BridgeDocs(S_blinds)) @@ (S_vents :> BridgeDocs(S_vents))
  @@ (S_lights :> BridgeDocs(S_lights))

\* tier lists with a category in both tiers, and with a category listed
\* twice and an empty slow tier
BridgeConfigs ==
  { [IntervalItems |-> <<S_lights, S_blinds>>, MainItems |-> <<S_lights>>],
    [IntervalItems |-> <<S_lights, S_lights>>, MainItems |-> <<>>] }

\* topics the MQTT transport hands to the subscription callback: of four,
\* five and three segments
InboundTopics ==
  { JoinPath(<<GekkoName, S_blinds, S_item0, S_set>>),
    JoinPath(<<S_root, GekkoName, S_vents, S_item1, S_set>>),
    JoinPath(<<S_blinds, S_item0, S_set>>) }

\* payloads of inbound messages
Payloads == { <<"5","0">>, <<>> }

(***************************************************************************)
(* State.                                                                  *)
(***************************************************************************)
VARIABLES
  IntervalRounds, \* cfg.MyGekko.IntervalRounds
  fieldDef,       \* Bridge.fieldDef
  history,        \* Bridge.history: histKey -> last published value
  cancelled,      \* Bridge.ctx is done
  alive,          \* the process has not exited
  exitCode,       \* the argument of os.Exit (0 when main returned)
  mpc,            \* position of main
  gpc,            \* position of RunGetter
  tickC,          \* ticker.C holds a tick
  round,          \* RunGetter's round counter
  tick,           \* number of poll() calls begun
  tier,           \* which list pollCategories is walking: "fast" or "slow"
  catIdx,         \* index of the category in that list
  status,         \* catMap of the category being walked
  pending,        \* item keys the range over catMap has not visited yet
  call,           \* the locals of the processItem call in progress
  prevCall,       \* arguments of the last processItem call that returned
  fetched,        \* <<tier, category>> pairs fetched in the current tick
  published,      \* messages handed to MQTT since the last GetStatus
  cancelTick,     \* the tick that was in progress when Stop() was called, 0 if none
  intervalItems,  \* cfg.MyGekko.IntervalItems
  mainItems,      \* cfg.MyGekko.MainItems
  fault,          \* class of the runtime fault that ended the process, "none" if none
  online,         \* online marker topic -> number of times it was published
  spc,            \* position of RunSetter
  subscriptions,  \* topics RunSetter has subscribed to, in order
  cmdCount,       \* number of handleSetCommand invocations so far
  raw,            \* the argument of a parseFormatField call
  parsed,         \* what that call returned, once it has returned
  configFile,     \* the file a LoadConfig call is given
  loaded,         \* what that call returned, once it has returned
  definitions,    \* the document GetDefinitions answers to LoadFieldDefinitions
  registry,       \* what LoadFieldDefinitions returned, once it has returned
  stages,         \* the startup steps of main that have succeeded, in order
  lastCmd         \* the last handleSetCommand invocation: topic, payload,
                  \* whether the poller had returned, SetValue
                  \* calls, and whether SetValue returned an error

vars == <<IntervalRounds, fieldDef, history, cancelled, alive, exitCode, fault, mpc, gpc,
          tickC, round, tick, tier, catIdx, status, pending, call, prevCall,
          fetched, published, cancelTick, intervalItems, mainItems, fault,
          online, spc, subscriptions, cmdCount, lastCmd, raw, parsed,
          configFile, loaded, definitions, registry, stages>>

\* the calls of LoadConfig and LoadFieldDefinitions
loading == <<configFile, loaded, definitions, registry>>

\* what is settled before the bridge runs: the two tier lists of LoadConfig,
\* the format fields parsed for the registry, the loading calls and the
\* startup steps of main
startup == <<intervalItems, mainItems, raw, parsed, loading, stages>>

\* what belongs to RunSetter and to the command handler
setterVars == <<spc, subscriptions, cmdCount, lastCmd>>

\* no command has been handled yet
NoCmd == [active |-> FALSE]

NoCall == [active |-> FALSE]

NoStatus == EmptyMap

\* the state after NewBridge, whatever the two tier lists are
\* the fields of the Bridge and of its loops, as NewBridge leaves them
InitFields ==
  /\ IntervalRounds \in 1..MaxRounds
  /\ history = EmptyMap
  /\ cancelled = FALSE
  /\ alive = TRUE
  /\ exitCode = 0
  /\ tickC = FALSE
  /\ round = 0
  /\ tick = 0
  /\ tier = "fast"
  /\ catIdx = 1
  /\ status = NoStatus
  /\ pending = {}
  /\ call = NoCall
  /\ prevCall = NoCall
  /\ fetched = {}
  /\ published = <<>>
  /\ cancelTick = 0
  /\ fault = "none"
  /\ online = EmptyMap
  /\ subscriptions = <<>>
  /\ cmdCount = 0
  /\ lastCmd = NoCmd

\* the startup steps of main, in the order of its statements
StartupStages == <<"config", "fielddefs", "mqtt", "bridge">>

\* main has started both loops and waits for a signal; neither loop has run
InitState ==
  /\ InitFields
  /\ fieldDef = FieldDefinitions
  /\ mpc = "wait"
  /\ gpc = "start"
  /\ spc = "start"
  /\ stages = StartupStages

\* no parseFormatField call is under way
NotParsed == [done |-> FALSE]

\* no LoadConfig or LoadFieldDefinitions call is under way
NotLoaded == [done |-> FALSE]

NoLoading ==
  /\ configFile = [readable |-> FALSE]
  /\ loaded = NotLoaded
  /\ definitions = [ok |-> FALSE, doc |-> EmptyMap]
  /\ registry = NotLoaded

\* the polling path under the configuration IntervalItems, MainItems
Init ==
  /\ InitState
  /\ intervalItems = IntervalItems
  /\ mainItems = MainItems
  /\ raw = <<>>
  /\ parsed = NotParsed
  /\ NoLoading

\* the whole bridge under one of the configurations BridgeConfigs
InitBridge ==
  /\ InitState
  /\ \E cfg \in BridgeConfigs :
       /\ intervalItems = cfg.IntervalItems
       /\ mainItems = cfg.MainItems
  /\ raw = <<>>
  /\ parsed = NotParsed
  /\ NoLoading

(***************************************************************************)
(* Helpers of the actions.                                                 *)
(***************************************************************************)
\* RunGetter is inside poll(), between round++ and the return to the select
InTick == gpc \in {"fetch", "items", "field", "return", "rounds"}

\* os.Exit(code): the whole process ends where it stands
Exit(code) ==
  /\ alive' = FALSE
  /\ exitCode' = code

\* the classes of runtime fault of the bridge
FaultClasses == {"convert", "publish", "subscribe", "topic", "setvalue", "fetch"}

\* a subscribe failure that leaves with the code of a publish failure
ExitCode_SubscribeAsPublish(class) ==
  CASE class = "convert" -> 5
    [] class = "publish" -> 6
    [] class = "subscribe" -> 6
    [] class = "topic" -> 8
    [] class = "setvalue" -> 9
    [] class = "fetch" -> 11

\* the outcome code of each class of runtime fault
ExitCode(class) ==
  CASE class = "convert" -> 5
    [] class = "publish" -> 6
    [] class = "subscribe" -> 7
    [] class = "topic" -> 8
    [] class = "setvalue" -> 9
    [] class = "fetch" -> 11

\* slog.Error(...); os.Exit(code) of a runtime fault
Fatal(class) ==
  /\ fault' = class
  /\ Exit(ExitCode(class))

\* the list pollCategories was called with
TierList == IF tier = "fast" THEN intervalItems ELSE mainItems

\* one message handed to the MQTT client: Publish(topic, value) or
\* PublishJSON(topic, data)
Message(api, topic, payload) == [api |-> api, topic |-> topic, payload |-> payload]

\* histKey := fmt.Sprintf("%s/%s/%s", category, item, field.Name)
HistKey(category, item, name) == JoinPath(<<category, item, name>>)

\* topic := fmt.Sprintf("%s/%s/%s/get/%s", b.gekkoName, category, item, field.Name)
FieldTopic(category, item, name) == JoinPath(<<GekkoName, category, item, S_get, name>>)

\* jsonTopic := fmt.Sprintf("%s/%s/%s/get/json", b.gekkoName, category, item)
JsonTopic(category, item) == JoinPath(<<GekkoName, category, item, S_get, S_json>>)

\* one topic for all categories
TimeTopic_NoCategory(category) == JoinPath(<<GekkoName, S_get, S_time>>)

\* fmt.Sprintf("%s/%s/get/time", b.gekkoName, category)
TimeTopic(category) == JoinPath(<<GekkoName, category, S_get, S_time>>)

\* fmt.Sprintf("%s/setter_online", b.gekkoName)
SetterOnlineTopic == JoinPath(<<GekkoName, S_setter_online>>)

\* topic := fmt.Sprintf("%s/%s/+/set", b.gekkoName, category)
SetTopic(category) == JoinPath(<<GekkoName, category, S_plus, S_set>>)

\* one more successful publish of an online marker
Marked(m, topic) == MapPut(m, topic, IF topic \in DOMAIN m THEN m[topic] + 1 ELSE 1)

\* allCategories without the sort
AllCategories_Unsorted == Compact(intervalItems \o mainItems)

\* allCategories: slices.Concat, slices.Sort, slices.Compact
AllCategories == Compact(Sort(intervalItems \o mainItems))

\* a context of its own that nobody cancels
CtxDone_Background == FALSE

\* <-b.ctx.Done() is ready
CtxDone == cancelled

\* an error of SetValue that is logged and nothing more
SetValueFatal_Logged(ok) == FALSE

\* if err := b.gekko.SetValue(...); err != nil { ...; os.Exit(9) }
SetValueFatal(ok) == ~ok

\* the test with 3 in the place of 4
TooShort_Three(parts) == Len(parts) < 3

\* if len(parts) < 4
TooShort(parts) == Len(parts) < 4

\* the category counted from the front of the topic
CommandCategory_FromFront(parts) == parts[2]

\* category := parts[len(parts)-3]
CommandCategory(parts) == parts[Len(parts) - 2]

\* item := parts[len(parts)-2]
CommandItem(parts) == parts[Len(parts) - 1]

\* the marker topic of the other loop
GetterOnlineTopic_Setter == JoinPath(<<GekkoName, S_setter_online>>)

\* fmt.Sprintf("%s/getter_online", b.gekkoName)
GetterOnlineTopic == JoinPath(<<GekkoName, S_getter_online>>)

\* SkipsField without the test for an empty token
SkipsField_KeepEmpty(field, rawValue) ==
  \/ field.Name = <<>>
  \/ field.Type = ""
  \/ field.Type \notin {"int", "float", "string"}

\* the field loop of processItem skips this descriptor or this token
SkipsField(field, rawValue) ==
  \/ field.Name = <<>>
  \/ field.Type = ""
  \/ rawValue = <<>>
  \/ field.Type \notin {"int", "float", "string"}

\* the switch on field.Type: [ok, value]
Convert(type, rawValue) ==
  CASE type = "int" -> Atoi(rawValue)
    [] type = "float" -> ParseFloat(rawValue)
    [] type = "string" -> [ok |-> TRUE, value |-> StringValue(rawValue)]

\* a history that suppresses nothing
IsDuplicate_Never(hist, histKey, value) == FALSE

\* IsDuplicate with the comparison of the values left out
IsDuplicate_KeyOnly(hist, histKey, value) == histKey \in DOMAIN hist

\* the history suppresses the publish: an entry exists and equals the value
IsDuplicate(hist, histKey, value) ==
  /\ histKey \in DOMAIN hist
  /\ InterfaceEq(hist[histKey], value)

\* the publish without the assignment to b.history
HistoryPut_Forgotten(hist, histKey, value) == hist

\* b.history[histKey] = value, writing only keys that are new
HistoryPut_InsertOnly(hist, histKey, value) ==
  IF histKey \in DOMAIN hist THEN hist ELSE MapPut(hist, histKey, value)

\* b.history[histKey] = value
HistoryPut(hist, histKey, value) == MapPut(hist, histKey, value)

\* JsonDue without the hasChanges test
JsonDue_Always(hasChanges, itemData) == Cardinality(DOMAIN itemData) > 0

\* the aggregate document is due after the field loop
JsonDue(hasChanges, itemData) == hasChanges /\ Cardinality(DOMAIN itemData) > 0

\* RoundReached with > in place of >=
RoundReached_Strict(r, n) == r > n

\* the slow tier is due in this poll
RoundReached(r, n) == r >= n

\* the token taken by the count of non-reserved descriptors before i
RawValue_Packed(c) ==
  c.values[c.i - Cardinality({j \in 1..(c.i - 1) : c.fields[j].Type = ""})]

\* rawValue := values[i]
RawValue(c) == c.values[c.i]

\* the aggregate document without the timestamp
JsonDocument_NoTimestamp(itemData) == itemData

\* itemData["timestamp"] = time.Now().Unix()
JsonDocument(itemData) == MapPut(itemData, S_timestamp, UnixNow)

\* the field loop of processItem has run off the schema or off the tokens
LoopDone(c) == c.i > Len(c.fields) \/ c.i > Len(c.values)

(***************************************************************************)
(* main: waits for a signal, calls bridge.Stop() and returns, which ends   *)
(* the process without waiting for the two goroutines.                     *)
(***************************************************************************)
\* sig := <-sigChan; bridge.Stop()
Main_Stop ==
  /\ alive
  /\ mpc = "wait"
  /\ cancelled' = TRUE
  /\ mpc' = "return"
  /\ cancelTick' = IF InTick THEN tick ELSE 0
  /\ UNCHANGED <<startup, setterVars, online, IntervalRounds, fieldDef, history, alive, exitCode, fault, gpc, tickC,
                 round, tick, tier, catIdx, status, pending, call, prevCall,
                 fetched, published>>

\* main returns (after the deferred mqtt.Disconnect)
Main_Return ==
  /\ alive
  /\ mpc = "return"
  /\ mpc' = "exited"
  /\ Exit(0)
  /\ UNCHANGED fault
  /\ UNCHANGED <<startup, setterVars, online, IntervalRounds, cancelTick, fieldDef, history, cancelled, gpc, tickC,
                 round, tick, tier, catIdx, status, pending, call, prevCall,
                 fetched, published>>

(***************************************************************************)
(* RunGetter.                                                              *)
(***************************************************************************)
\* publish getter_online, create the ticker, go to the initial poll()
RunGetter_Start ==
  /\ alive
  /\ gpc = "start"
  /\ \E ok \in BOOLEAN :
       IF ok
       THEN /\ published' = Append(published, Message("Publish", GetterOnlineTopic, StringValue(S_true)))
            /\ online' = Marked(online, GetterOnlineTopic)
            /\ gpc' = "poll"
            /\ UNCHANGED <<alive, exitCode, fault>>
       ELSE /\ Fatal("publish")
            /\ UNCHANGED <<published, online, gpc>>
  /\ UNCHANGED <<startup, setterVars, IntervalRounds, cancelTick, fieldDef, history, cancelled, mpc, tickC,
                 round, tick, tier, catIdx, status, pending, call, prevCall, fetched>>

\* the ticker delivers a tick into ticker.C (capacity 1).  Only the select
\* reads the channel, so a tick delivered while poll() runs is the same as
\* one delivered when RunGetter is back at the select.
Ticker_Fire ==
  /\ alive
  /\ gpc = "select"
  /\ ~tickC
  /\ tickC' = TRUE
  /\ UNCHANGED <<startup, setterVars, online, IntervalRounds, cancelTick, fieldDef, history, cancelled, alive, exitCode, fault, mpc,
                 gpc, round, tick, tier, catIdx, status, pending, call, prevCall,
                 fetched, published>>

\* select, case <-b.ctx.Done(): return
RunGetter_Done ==
  /\ alive
  /\ gpc = "select"
  /\ CtxDone
  /\ gpc' = "stopped"
  /\ UNCHANGED <<startup, setterVars, online, IntervalRounds, cancelTick, fieldDef, history, cancelled, alive, exitCode, fault, mpc,
                 tickC, round, tick, tier, catIdx, status, pending, call, prevCall,
                 fetched, published>>

\* select, case <-ticker.C: poll().  When both channels are ready Go picks
\* either case.
RunGetter_Tick ==
  /\ alive
  /\ gpc = "select"
  /\ tickC
  /\ tick < MaxTicks
  /\ tickC' = FALSE
  /\ gpc' = "poll"
  /\ UNCHANGED <<startup, setterVars, online, IntervalRounds, cancelTick, fieldDef, history, cancelled, alive, exitCode, fault, mpc,
                 round, tick, tier, catIdx, status, pending, call, prevCall,
                 fetched, published>>

\* poll(): round++, then the fast tier if it is not empty
Poll_Begin ==
  /\ alive
  /\ gpc = "poll"
  /\ round' = round + 1
  /\ tick' = tick + 1
  /\ fetched' = {}
  /\ tier' = "fast"
  /\ catIdx' = 1
  /\ gpc' = IF Len(intervalItems) > 0 THEN "fetch" ELSE "rounds"
  /\ UNCHANGED <<startup, setterVars, online, IntervalRounds, cancelTick, fieldDef, history, cancelled, alive, exitCode, fault, mpc,
                 tickC, status, pending, call, prevCall, published>>

\* poll(): if round >= IntervalRounds, reset it and walk the slow tier
Poll_Rounds ==
  /\ alive
  /\ gpc = "rounds"
  /\ IF RoundReached(round, IntervalRounds)
     THEN /\ round' = 0
          /\ tier' = "slow"
          /\ catIdx' = 1
          /\ gpc' = IF Len(mainItems) > 0 THEN "fetch" ELSE "select"
     ELSE /\ gpc' = "select"
          /\ UNCHANGED <<round, tier, catIdx>>
  /\ UNCHANGED <<startup, setterVars, online, IntervalRounds, cancelTick, fieldDef, history, cancelled, alive, exitCode, fault, mpc,
                 tickC, tick, status, pending, call, prevCall, fetched, published>>

(***************************************************************************)
(* pollCategories.                                                         *)
(***************************************************************************)
\* where pollCategories goes after the last statement of a category
AfterCategory ==
  IF catIdx < Len(TierList)
  THEN /\ catIdx' = catIdx + 1
       /\ gpc' = "fetch"
  ELSE /\ catIdx' = catIdx
       /\ gpc' = IF tier = "fast" THEN "rounds" ELSE "select"

\* status, err := b.gekko.GetStatus([]string{category}), answered by a device
\* that holds the documents device[category]: the call fails, or the answer
\* lacks the category (or holds something that is not a map under it), or
\* the answer holds one of the documents
PollCategories_Fetch(device) ==
  /\ alive
  /\ gpc = "fetch"
  /\ \/ /\ Fatal("fetch")
        /\ UNCHANGED <<status, pending, fetched, published, gpc, catIdx>>
     \/ /\ fetched' = fetched \cup {<<tier, TierList[catIdx]>>}
        /\ published' = <<>>
        /\ status' = NoStatus
        /\ pending' = {}
        /\ AfterCategory
        /\ UNCHANGED <<alive, exitCode, fault>>
     \/ \E doc \in device[TierList[catIdx]] :
          /\ status' = doc
          /\ pending' = DOMAIN doc
          /\ fetched' = fetched \cup {<<tier, TierList[catIdx]>>}
          /\ published' = <<>>
          /\ gpc' = "items"
          /\ UNCHANGED <<alive, exitCode, fault, catIdx>>
  /\ UNCHANGED <<startup, setterVars, online, IntervalRounds, cancelTick, fieldDef, history, cancelled, mpc, tickC, round,
                 tick, tier, call, prevCall>>

\* a lookup that falls back to the schema of "blinds"
Lookup_Default(category) ==
  [ok |-> TRUE,
   fields |-> IF category \in DOMAIN fieldDef THEN fieldDef[category]
              ELSE fieldDef[S_blinds]]

\* fields, ok := b.fieldDef[category]: a missing key gives ok = false and a
\* nil slice
Lookup(category) ==
  [ok |-> category \in DOMAIN fieldDef,
   fields |-> IF category \in DOMAIN fieldDef THEN fieldDef[category] ELSE <<>>]

\* the tokens padded so that every descriptor of a schema has one
Tokens_Padded(valueStr) == Split(valueStr, ";") \o << <<"0">>, <<"0">>, <<"0">> >>

\* values := strings.Split(valueStr, ";")
Tokens(valueStr) == Split(valueStr, ";")

\* the locals of processItem(category, item, sumstate) at its first statement
\* after the three early returns
NewCall(category, item, sumstate) ==
  LET early == \/ ~sumstate.isMap
               \/ ~sumstate.hasValue
               \/ ~Lookup(category).ok
  IN [active |-> TRUE,
      category |-> category,
      item |-> item,
      sumstate |-> sumstate,
      early |-> early,
      fields |-> IF early THEN <<>> ELSE Lookup(category).fields,
      values |-> IF early THEN <<>> ELSE Tokens(sumstate.value),
      i |-> 1,
      itemData |-> EmptyMap,
      hasChanges |-> FALSE,
      histBefore |-> history,
      pubStart |-> Len(published)]

\* a lookup that leaves an empty schema behind for a category it did not find
RegistryAfterLookup_Inserts(r, category) ==
  IF category \in DOMAIN r THEN r ELSE MapPut(r, category, <<>>)

\* b.fieldDef after `fields, ok := b.fieldDef[category]`: reading a Go map
\* with a missing key adds nothing to it
RegistryAfterLookup(r, category) == r

\* one round of `for item, itemData := range catMap` (Go visits the keys in
\* any order): group nodes and items without sumstate are passed over, any
\* other item enters processItem
PollCategories_Item ==
  /\ alive
  /\ gpc = "items"
  /\ \E item \in pending :
       /\ pending' = pending \ {item}
       /\ IF \/ HasPrefix(item, S_group)
             \/ ~status[item].isMap
             \/ ~status[item].hasSumstate
          THEN UNCHANGED <<call, gpc, fieldDef>>
          ELSE LET c == NewCall(TierList[catIdx], item, status[item].sumstate) IN
               /\ call' = c
               /\ gpc' = IF c.early THEN "return" ELSE "field"
               /\ fieldDef' = RegistryAfterLookup(fieldDef, TierList[catIdx])
  /\ UNCHANGED <<startup, setterVars, online, IntervalRounds, cancelTick, history, cancelled, alive, exitCode, fault, mpc,
                 tickC, round, tick, tier, catIdx, status, prevCall, fetched, published>>

\* after the range: publish the category's poll timestamp
PollCategories_Time ==
  /\ alive
  /\ gpc = "items"
  /\ pending = {}
  /\ \E ok \in BOOLEAN :
       IF ok
       THEN /\ published' = Append(published, Message("Publish", TimeTopic(TierList[catIdx]), UnixNow))
            /\ AfterCategory
            /\ UNCHANGED <<alive, exitCode, fault>>
       ELSE /\ Fatal("publish")
            /\ UNCHANGED <<published, catIdx, gpc>>
  /\ UNCHANGED <<startup, setterVars, online, IntervalRounds, cancelTick, fieldDef, history, cancelled, mpc, tickC, round,
                 tick, tier, status, pending, call, prevCall, fetched>>

(***************************************************************************)
(* processItem.                                                            *)
(***************************************************************************)
\* one iteration of `for i, field := range fields`
ProcessItem_Field ==
  /\ alive
  /\ gpc = "field"
  /\ ~LoopDone(call)
  /\ LET field == call.fields[call.i]
         rawValue == RawValue(call)
         conv == Convert(field.Type, rawValue)
         histKey == HistKey(call.category, call.item, field.Name)
         topic == FieldTopic(call.category, call.item, field.Name)
         next == [call EXCEPT !.i = call.i + 1]
         withData == [next EXCEPT !.itemData = MapPut(call.itemData, field.Name, conv.value)]
     IN
     IF SkipsField(field, rawValue)
     THEN /\ call' = next
          /\ UNCHANGED <<history, published, alive, exitCode, fault>>
     ELSE IF ~conv.ok
     THEN /\ Fatal("convert")
          /\ UNCHANGED <<call, history, published>>
     ELSE IF IsDuplicate(history, histKey, conv.value)
     THEN /\ call' = withData
          /\ UNCHANGED <<history, published, alive, exitCode, fault>>
     ELSE /\ history' = HistoryPut(history, histKey, conv.value)
          /\ call' = [withData EXCEPT !.hasChanges = TRUE]
          /\ \E ok \in BOOLEAN :
               IF ok
               THEN /\ published' = Append(published, Message("Publish", topic, conv.value))
                    /\ UNCHANGED <<alive, exitCode, fault>>
               ELSE /\ Fatal("publish")
                    /\ UNCHANGED published
  /\ UNCHANGED <<startup, setterVars, online, IntervalRounds, cancelTick, fieldDef, cancelled, mpc, gpc, tickC, round, tick,
                 tier, catIdx, status, pending, prevCall, fetched>>

\* after the loop: the aggregate document, if anything changed
ProcessItem_Json ==
  /\ alive
  /\ gpc = "field"
  /\ LoopDone(call)
  /\ IF JsonDue(call.hasChanges, call.itemData)
     THEN \E ok \in BOOLEAN :
            LET data == JsonDocument(call.itemData) IN
            IF ok /\ JsonMarshalOk(data)
            THEN /\ published' = Append(published,
                                        Message("PublishJSON", JsonTopic(call.category, call.item), data))
                 /\ gpc' = "return"
                 /\ UNCHANGED <<alive, exitCode, fault>>
            ELSE /\ Fatal("publish")
                 /\ UNCHANGED <<published, gpc>>
     ELSE /\ gpc' = "return"
          /\ UNCHANGED <<published, alive, exitCode, fault>>
  /\ UNCHANGED <<startup, setterVars, online, IntervalRounds, cancelTick, fieldDef, history, cancelled, mpc, tickC, round,
                 tick, tier, catIdx, status, pending, call, prevCall, fetched>>

\* processItem returns to the range over catMap
ProcessItem_Return ==
  /\ alive
  /\ gpc = "return"
  /\ prevCall' = [active |-> TRUE, category |-> call.category, item |-> call.item,
                  sumstate |-> call.sumstate]
  /\ call' = NoCall
  /\ gpc' = "items"
  /\ UNCHANGED <<startup, setterVars, online, IntervalRounds, cancelTick, fieldDef, history, cancelled, alive, exitCode, fault, mpc,
                 tickC, round, tick, tier, catIdx, status, pending, fetched, published>>

Next ==
  \/ Main_Stop
  \/ Main_Return
  \/ RunGetter_Start
  \/ Ticker_Fire
  \/ RunGetter_Done
  \/ RunGetter_Tick
  \/ Poll_Begin
  \/ Poll_Rounds
  \/ PollCategories_Fetch(Device)
  \/ PollCategories_Item
  \/ PollCategories_Time
  \/ ProcessItem_Field
  \/ ProcessItem_Json
  \/ ProcessItem_Return

Spec == Init /\ [][Next]_vars

(***************************************************************************)
(* RunSetter and the command handler.                                      *)
(***************************************************************************)
\* publish setter_online, compute allCategories
RunSetter_Start ==
  /\ alive
  /\ spc = "start"
  /\ \E ok \in BOOLEAN :
       IF ok
       THEN /\ online' = Marked(online, SetterOnlineTopic)
            /\ spc' = IF Len(AllCategories) > 0 THEN "subscribe" ELSE "wait"
            /\ UNCHANGED <<alive, exitCode, fault>>
       ELSE /\ Fatal("publish")
            /\ UNCHANGED <<online, spc>>
  /\ UNCHANGED <<startup, subscriptions, cmdCount, lastCmd, IntervalRounds, cancelTick,
                 fieldDef, history, cancelled, mpc, gpc, tickC, round, tick, tier, catIdx,
                 status, pending, call, prevCall, fetched, published>>

\* one round of `for _, category := range allCategories`: Subscribe
RunSetter_Subscribe ==
  /\ alive
  /\ spc = "subscribe"
  /\ \E ok \in BOOLEAN :
       IF ok
       THEN /\ subscriptions' = Append(subscriptions,
                                       SetTopic(AllCategories[Len(subscriptions) + 1]))
            /\ spc' = IF Len(subscriptions) + 1 < Len(AllCategories)
                      THEN "subscribe" ELSE "wait"
            /\ UNCHANGED <<alive, exitCode, fault>>
       ELSE /\ Fatal("subscribe")
            /\ UNCHANGED <<subscriptions, spc>>
  /\ UNCHANGED <<startup, online, cmdCount, lastCmd, IntervalRounds, cancelTick,
                 fieldDef, history, cancelled, mpc, gpc, tickC, round, tick, tier, catIdx,
                 status, pending, call, prevCall, fetched, published>>

\* <-b.ctx.Done(); RunSetter returns
RunSetter_Done ==
  /\ alive
  /\ spc = "wait"
  /\ CtxDone
  /\ spc' = "stopped"
  /\ UNCHANGED <<startup, online, subscriptions, cmdCount, lastCmd, IntervalRounds,
                 cancelTick, fieldDef, history, cancelled, alive, exitCode, fault, mpc, gpc,
                 tickC, round, tick, tier, catIdx, status, pending, call, prevCall, fetched,
                 published>>

\* RunGetter has returned
PollerStopped == gpc = "stopped"

\* the callbacks removed when the context is cancelled
StillSubscribed_UntilCancelled == Len(subscriptions) > 0 /\ ~cancelled

\* the MQTT client still delivers to the callbacks: RunSetter returns on
\* ctx.Done() without unsubscribing, so a subscription made once stays
StillSubscribed == Len(subscriptions) > 0

\* the command recorded as the last value of the item
HistoryAfterCommand_Records(h, cmd) ==
  MapPut(h, HistKey(cmd.category, cmd.item, S_set), StringValue(cmd.value))

\* b.history after handleSetCommand: the handler has no statement on it
HistoryAfterCommand(h, cmd) == h

\* the MQTT transport calls the subscription callback, which is
\* handleSetCommand(topic, payload)
HandleSetCommand ==
  /\ alive
  /\ StillSubscribed
  /\ cmdCount < MaxCommands
  /\ cmdCount' = cmdCount + 1
  /\ \E topic \in InboundTopics, payload \in Payloads :
       LET parts == Split(topic, "/")
           setValue == [category |-> CommandCategory(parts),
                        item |-> CommandItem(parts),
                        value |-> payload]
       IN
       IF TooShort(parts)
       THEN /\ lastCmd' = [active |-> TRUE, topic |-> topic, payload |-> payload,
                           calls |-> <<>>, failed |-> FALSE,
                           pollerStopped |-> PollerStopped]
            /\ Fatal("topic")
            /\ UNCHANGED history
       ELSE \E ok \in BOOLEAN :
              /\ lastCmd' = [active |-> TRUE, topic |-> topic, payload |-> payload,
                             calls |-> <<setValue>>, failed |-> ~ok,
                             pollerStopped |-> PollerStopped]
              /\ history' = HistoryAfterCommand(history, setValue)
              /\ IF SetValueFatal(ok)
                 THEN Fatal("setvalue")
                 ELSE UNCHANGED <<alive, exitCode, fault>>
  /\ UNCHANGED <<startup, online, spc, subscriptions, IntervalRounds, cancelTick,
                 fieldDef, cancelled, mpc, gpc, tickC, round, tick, tier, catIdx,
                 status, pending, call, prevCall, fetched, published>>

\* the whole bridge: main, RunGetter and RunSetter with the command handler,
\* against the device SmallDevice
NextBridge ==
  \/ Main_Stop
  \/ Main_Return
  \/ RunGetter_Start
  \/ Ticker_Fire
  \/ RunGetter_Done
  \/ RunGetter_Tick
  \/ Poll_Begin
  \/ Poll_Rounds
  \/ PollCategories_Fetch(SmallDevice)
  \/ PollCategories_Item
  \/ PollCategories_Time
  \/ ProcessItem_Field
  \/ ProcessItem_Json
  \/ ProcessItem_Return
  \/ RunSetter_Start
  \/ RunSetter_Subscribe
  \/ RunSetter_Done
  \/ HandleSetCommand

SpecBridge == InitBridge /\ [][NextBridge]_vars

\* the steps of the RunGetter goroutine other than the two cases of its select
GetterRun ==
  \/ RunGetter_Start
  \/ Poll_Begin
  \/ Poll_Rounds
  \/ PollCategories_Fetch(SmallDevice)
  \/ PollCategories_Item
  \/ PollCategories_Time
  \/ ProcessItem_Field
  \/ ProcessItem_Json
  \/ ProcessItem_Return

\* the steps of the RunSetter goroutine
SetterRun ==
  \/ RunSetter_Start
  \/ RunSetter_Subscribe
  \/ RunSetter_Done

\* main and the two loops, without inbound commands
NextLoops ==
  \/ Main_Stop
  \/ Main_Return
  \/ Ticker_Fire
  \/ RunGetter_Done
  \/ RunGetter_Tick
  \/ GetterRun
  \/ SetterRun

\* The Go scheduler lets a runnable goroutine run, and a select with several
\* ready cases picks among them at random, so the ctx.Done() case is not
\* passed over forever.  Nothing is assumed of main, the ticker, the device
\* or the MQTT transport.
FairLoops ==
  /\ InitBridge
  /\ [][NextLoops]_vars
  /\ WF_vars(GetterRun)
  /\ SF_vars(RunGetter_Done)
  /\ WF_vars(SetterRun)

(***************************************************************************)
(* parseFormatField.                                                       *)
(***************************************************************************)
\* return FieldDef{...}, nil
ParseOk(field) == [ok |-> TRUE, field |-> field, err |-> "", arg |-> <<>>]

\* return FieldDef{}, fmt.Errorf(err, arg)
ParseError(err, arg) == [ok |-> FALSE, field |-> FieldDef(<<>>, ""), err |-> err, arg |-> arg]

\* the vendor prefix cut off first, the bracket looked for in what is left
TypeToken_CutFirst(typeData) ==
  LET cut == Cut(typeData, ":")
      rest == IF cut.found THEN cut.after ELSE typeData
      k == IndexFrom(rest, "[", 1)
  IN IF k = 0 THEN rest ELSE SubSeq(rest, 1, k - 1)

\* typeName := typeData[:bracketIdx], then the part after the first ":" of
\* it if there is one
TypeToken(typeData) ==
  LET typeName == SubSeq(typeData, 1, IndexFrom(typeData, "[", 1) - 1)
      cut == Cut(typeName, ":")
  IN IF cut.found THEN cut.after ELSE typeName

\* a switch without the "enum" case
KindOf_NoEnum(typeName) ==
  IF typeName = S_int THEN [ok |-> TRUE, type |-> "int"]
  ELSE IF typeName = S_float THEN [ok |-> TRUE, type |-> "float"]
  ELSE IF typeName = S_string THEN [ok |-> TRUE, type |-> "string"]
  ELSE IF typeName = S_null THEN [ok |-> TRUE, type |-> ""]
  ELSE [ok |-> FALSE, type |-> ""]

\* switch typeName
KindOf(typeName) ==
  IF typeName \in {S_int, S_enum} THEN [ok |-> TRUE, type |-> "int"]
  ELSE IF typeName = S_float THEN [ok |-> TRUE, type |-> "float"]
  ELSE IF typeName = S_string THEN [ok |-> TRUE, type |-> "string"]
  ELSE IF typeName = S_null THEN [ok |-> TRUE, type |-> ""]
  ELSE [ok |-> FALSE, type |-> ""]

\* a blank segment that is not told from any other
IsBlank_Never(data) == FALSE

\* if data == ""
IsBlank(data) == data = <<>>

\* parseFormatField(raw)
ParseFormatField(rawField) ==
  LET data == TrimSpace(rawField)
      parts == SplitN2(data, " ")
  IN
  IF IsBlank(data) THEN ParseOk(FieldDef(<<>>, ""))
  ELSE IF Len(parts) # 2 THEN ParseError("invalid format definition", data)
  ELSE IF IndexFrom(parts[2], "[", 1) = 0 THEN ParseError("no type bracket found", parts[2])
  ELSE LET typeName == TypeToken(parts[2]) IN
       IF KindOf(typeName).ok
       THEN ParseOk(FieldDef(parts[1], KindOf(typeName).type))
       ELSE ParseError("type is not supported", typeName)

\* field names: plain, and with a colon and a bracket in it
FormatNames == { <<"p","o","s">>, <<"u",":","[","1","]">> }

\* vendor prefixes with their colon; the empty one is no prefix
FormatPrefixes == { <<>>, <<"#","z",":">> }

\* type tokens: the five known ones, an unknown one and the empty one
FormatTypes == { S_int, S_enum, S_float, S_string, S_null, S_blob, <<>> }

\* constraint lists with what follows them: empty, with a colon inside, with
\* a colon after
FormatConstraints ==
  { <<"[","]">>, <<"[","0",":","1","]">>, <<"[","a","]","(","u",":","c",")">> }

\* "<name> [<prefix>:]<type>[...]"
FormatField(name, prefix, type, constraint) == name \o <<" ">> \o prefix \o type \o constraint

\* the segments parseFormatField is called with: every combination of the
\* above, some of them padded with white space, and segments of other shapes
FormatInputs ==
  { FormatField(n, p, t, c) :
      n \in FormatNames, p \in FormatPrefixes, t \in FormatTypes, c \in FormatConstraints }
  \cup { <<" ", "\t">> \o FormatField(<<"p","o","s">>, <<>>, t, <<"[","]">>) \o <<" ">> :
           t \in FormatTypes }
  \cup { <<>>,
          <<" "," "," ">>,
          <<"n","o","T","y","p","e","H","e","r","e">>,
          <<"n","a","m","e"," ","i","n","t">>,
          <<"p","o","s"," "," ","i","n","t","[","0","]">>,
          <<" ","i","n","t","[","0","]">>,
          <<"\t">> }

\* a segment of a format string is about to be parsed
InitParse ==
  /\ InitState
  /\ intervalItems = IntervalItems
  /\ mainItems = MainItems
  /\ raw \in FormatInputs
  /\ parsed = NotParsed
  /\ NoLoading

\* field, err := parseFormatField(raw)
ParseField ==
  /\ ~parsed.done
  /\ parsed' = [done |-> TRUE, result |-> ParseFormatField(raw)]
  /\ UNCHANGED <<setterVars, online, IntervalRounds, cancelTick, fieldDef, history, cancelled,
                 alive, exitCode, fault, mpc, gpc, tickC, round, tick, tier, catIdx, status,
                 pending, call, prevCall, fetched, published, intervalItems, mainItems, raw,
                 loading, stages>>

NextParse == ParseField

SpecParse == InitParse /\ [][NextParse]_vars

(***************************************************************************)
(* LoadConfig and Config.Validate.  A config file is what os.ReadFile and  *)
(* toml.Unmarshal make of it: unreadable, malformed, or the decoded struct *)
(* in which a missing key is the zero value of its type.  TOML has the     *)
(* float nan, which decodes to a float64 NaN.                              *)
(***************************************************************************)
\* Go's == 0 and <= 0 on a float64: both are false for NaN
FloatIsZero(f) == f.special = "" /\ f.num = 0
FloatLeqZero(f) == f.special = "" /\ f.num <= 0

ConfigError(text) == [ok |-> FALSE, err |-> text]

\* the defaults LoadConfig fills in
DefaultInterval == FloatValue(5, 0)
DefaultIntervalRounds == 4

\* cfg.MyGekko after the two defaults have been applied
WithDefaults(cfg) ==
  LET g == cfg.MyGekko
      g1 == IF FloatIsZero(g.Interval) THEN [g EXCEPT !.Interval = DefaultInterval] ELSE g
      g2 == IF g1.IntervalRounds = 0
            THEN [g1 EXCEPT !.IntervalRounds = DefaultIntervalRounds] ELSE g1
  IN [cfg EXCEPT !.MyGekko = g2]

\* Config.Validate: the text of the first failed check, "" if none fails
Validate(c) ==
  IF c.MyGekko.Host = <<>> THEN "mygekko.host is required"
  ELSE IF c.MyGekko.Username = <<>> THEN "mygekko.username is required"
  ELSE IF c.MyGekko.Password = <<>> THEN "mygekko.password is required"
  ELSE IF FloatLeqZero(c.MyGekko.Interval) THEN "mygekko.interval must be positive"
  ELSE IF c.MyGekko.IntervalRounds <= 0 THEN "mygekko.interval_rounds must be positive"
  ELSE IF Len(c.MyGekko.IntervalItems) = 0 /\ Len(c.MyGekko.MainItems) = 0
       THEN "at least one of the item lists is required"
  ELSE IF c.MQTT.Host = <<>> /\ c.MQTT.Socket = <<>> THEN "mqtt.host or mqtt.socket is required"
  ELSE IF c.MQTT.Root = <<>> THEN "mqtt.root is required"
  ELSE ""

\* LoadConfig(path): [ok, cfg] or [ok, err]
LoadConfig(file) ==
  IF ~file.readable THEN ConfigError("cannot read config file")
  ELSE IF ~file.wellFormed THEN ConfigError("cannot parse config file")
  ELSE LET cfg == WithDefaults(file.cfg)
           err == Validate(cfg)
       IN IF err # "" THEN ConfigError(err) ELSE [ok |-> TRUE, cfg |-> cfg]

\* values a config file gives the keys: a text key is missing or present,
\* interval is missing (or 0), -1.0, 2.5 or nan, interval_rounds is -1,
\* missing (or 0) or 2, a tier is missing or lists one category
ConfigTexts == { <<>>, <<"x">> }
ConfigIntervals == { FloatValue(0, 0), FloatValue(-1, 0), FloatValue(25, 1), NaNValue }
ConfigRounds == { -1, 0, 2 }
ConfigTiers == { <<>>, <<S_blinds>> }

ConfigFiles ==
  { [readable |-> FALSE], [readable |-> TRUE, wellFormed |-> FALSE] }
  \cup
  { [readable |-> TRUE, wellFormed |-> TRUE,
     cfg |-> [MyGekko |-> [Host |-> h, Username |-> u, Password |-> p, Interval |-> i,
                           IntervalItems |-> fast, MainItems |-> slow,
                           IntervalRounds |-> n],
              MQTT |-> [Root |-> r, Host |-> mh, Socket |-> ms]]] :
     h \in ConfigTexts, u \in ConfigTexts, p \in ConfigTexts, i \in ConfigIntervals,
     fast \in ConfigTiers, slow \in ConfigTiers, n \in ConfigRounds,
     r \in ConfigTexts, mh \in ConfigTexts, ms \in ConfigTexts }

\* a LoadConfig call is about to be made on one of the files
InitConfig ==
  /\ InitState
  /\ intervalItems = IntervalItems
  /\ mainItems = MainItems
  /\ raw = <<>>
  /\ parsed = NotParsed
  /\ configFile \in ConfigFiles
  /\ loaded = NotLoaded
  /\ definitions = [ok |-> FALSE, doc |-> EmptyMap]
  /\ registry = NotLoaded

\* cfg, err := LoadConfig(*configPath)
LoadConfigCall ==
  /\ ~loaded.done
  /\ loaded' = [done |-> TRUE, result |-> LoadConfig(configFile)]
  /\ UNCHANGED <<setterVars, online, IntervalRounds, cancelTick, fieldDef, history, cancelled,
                 alive, exitCode, fault, mpc, gpc, tickC, round, tick, tier, catIdx, status,
                 pending, call, prevCall, fetched, published, intervalItems, mainItems, raw,
                 parsed, configFile, definitions, registry, stages>>

NextConfig == LoadConfigCall

SpecConfig == InitConfig /\ [][NextConfig]_vars

(***************************************************************************)
(* LoadFieldDefinitions.  The definition document is what GetDefinitions   *)
(* decoded: category -> category data, which is a map from item key to     *)
(* item data or something else.  Go ranges over a map in an order of its   *)
(* own choosing, so the first item with a format string is any of them.    *)
(***************************************************************************)
\* item data holding sumstate.format, item data with a sumstate that has no
\* format string, item data without a sumstate, and a member that is no map
DefItem(format) ==
  [isMap |-> TRUE, hasSumstate |-> TRUE,
   sumstate |-> [isMap |-> TRUE, hasFormat |-> TRUE, format |-> format]]
DefItemWithoutFormat ==
  [isMap |-> TRUE, hasSumstate |-> TRUE,
   sumstate |-> [isMap |-> TRUE, hasFormat |-> FALSE, format |-> <<>>]]
DefItemWithoutSumstate ==
  [isMap |-> TRUE, hasSumstate |-> FALSE,
   sumstate |-> [isMap |-> FALSE, hasFormat |-> FALSE, format |-> <<>>]]
DefNotAMap ==
  [isMap |-> FALSE, hasSumstate |-> FALSE,
   sumstate |-> [isMap |-> FALSE, hasFormat |-> FALSE, format |-> <<>>]]

\* category data: a map of members, or something that is no map
DefCategory(members) == [isMap |-> TRUE, members |-> members]
DefNoCategory == [isMap |-> FALSE, members |-> EmptyMap]

\* the members the range over catMap does not pass over with `continue`
Qualifying(catData) ==
  IF ~catData.isMap THEN {}
  ELSE {k \in DOMAIN catData.members :
          /\ HasPrefix(k, S_item)
          /\ catData.members[k].isMap
          /\ catData.members[k].hasSumstate
          /\ catData.members[k].sumstate.isMap
          /\ catData.members[k].sumstate.hasFormat}

\* the loop over formatParts: a part that fails to parse is passed over,
\* and so is the empty sentinel
RECURSIVE ParseSegments(_)
ParseSegments(parts) ==
  IF parts = <<>> THEN <<>>
  ELSE LET r == ParseFormatField(Head(parts))
           rest == ParseSegments(Tail(parts))
       IN IF r.ok /\ r.field.Name # <<>> THEN <<r.field>> \o rest ELSE rest

\* fields of the format string of one item
FieldsOf(itemData) == ParseSegments(Split(itemData.sumstate.format, ";"))

\* if len(fields) > 0 { result[category] = fields }
KeepsCategory_Always(fields) == TRUE

KeepsCategory(fields) == Len(fields) > 0

\* the ways the ranges can visit the members: for every category with a
\* qualifying member, the one that is visited first
FirstItems(doc) ==
  LET cats == {c \in DOMAIN doc : Qualifying(doc[c]) # {}}
      all == UNION {Qualifying(doc[c]) : c \in cats}
  IN {f \in [cats -> all] : \A c \in cats : f[c] \in Qualifying(doc[c])}

\* the map LoadFieldDefinitions returns when the ranges visit `first`
RegistryOf(doc, first) ==
  LET kept == {c \in DOMAIN first : KeepsCategory(FieldsOf(doc[c].members[first[c]]))}
  IN [c \in kept |-> FieldsOf(doc[c].members[first[c]])]

\* "<name> <type>[]"
Segment(name, type) == FormatField(name, <<>>, type, <<"[","]">>)

\* the format string of the segments
RECURSIVE JoinSegments(_)
JoinSegments(segments) ==
  IF Len(segments) = 0 THEN <<>>
  ELSE IF Len(segments) = 1 THEN segments[1]
  ELSE segments[1] \o <<";">> \o JoinSegments(Tail(segments))

\* format strings: three good fields with a reserved slot; an unsupported
\* type in the middle; an empty segment in the middle; an empty segment at
\* the end; one field; no segment that parses; the empty string
F_Blinds == JoinSegments(<<Segment(S_position, S_int), Segment(S_reserved, S_null),
                           Segment(S_angle, S_float)>>)
F_BadMiddle == JoinSegments(<<Segment(<<"a">>, S_int), Segment(<<"b">>, S_blob),
                              Segment(<<"c">>, S_float)>>)
F_Gap == JoinSegments(<<Segment(<<"a">>, S_int), <<>>, Segment(<<"c">>, S_float)>>)
F_Trailing == JoinSegments(<<Segment(<<"a">>, S_int), <<>>>>)
F_One == Segment(<<"c">>, S_float)
F_Vents == JoinSegments(<<Segment(S_level, S_int), Segment(S_mode, S_string)>>)
F_NoField == JoinSegments(<<Segment(<<"b">>, S_blob), <<"j","u","n","k">>>>)

\* what the device may put under each category
BlindsDefs ==
  { DefCategory(S_item0 :> DefItem(f)) : f \in {F_Blinds, F_BadMiddle, F_Gap, F_Trailing} }
  \cup { DefCategory((S_item0 :> DefItem(F_Blinds)) @@ (S_item1 :> DefItem(F_One))),
         DefCategory((S_item0 :> DefItemWithoutFormat) @@ (S_item1 :> DefItem(F_One))) }

VentsDefs ==
  { DefCategory(S_item0 :> DefItem(f)) : f \in {F_Vents, F_NoField, <<>>} }
  \cup { DefCategory((S_group0 :> DefItem(F_Vents)) @@ (S_name :> DefNotAMap)),
         DefCategory((S_item0 :> DefItemWithoutSumstate) @@ (S_item1 :> DefNotAMap)),
         DefNoCategory }

LightsDefs == { DefCategory(S_item0 :> DefItem(Segment(<<"s">>, S_enum))) }

\* the documents GetDefinitions may answer with, and its failure
DefinitionDocs ==
  { [ok |-> FALSE, doc |-> EmptyMap] }
  \cup { [ok |-> TRUE, doc |-> (S_blinds :> b) @@ (S_vents :> v)] :
           b \in BlindsDefs, v \in VentsDefs }
  \cup { [ok |-> TRUE, doc |-> (S_blinds :> b) @@ (S_vents :> v) @@ (S_lights :> l)] :
           b \in BlindsDefs, v \in VentsDefs, l \in LightsDefs }

\* LoadFieldDefinitions is about to be called on a device
InitLoad ==
  /\ InitState
  /\ intervalItems = IntervalItems
  /\ mainItems = MainItems
  /\ raw = <<>>
  /\ parsed = NotParsed
  /\ configFile = [readable |-> FALSE]
  /\ loaded = NotLoaded
  /\ definitions \in DefinitionDocs
  /\ registry = NotLoaded

\* fieldDefinitions, err := LoadFieldDefinitions(gekko)
LoadFieldDefinitionsCall ==
  /\ ~registry.done
  /\ IF ~definitions.ok
     THEN registry' = [done |-> TRUE, ok |-> FALSE, first |-> EmptyMap, result |-> EmptyMap]
     ELSE \E first \in FirstItems(definitions.doc) :
            registry' = [done |-> TRUE, ok |-> TRUE, first |-> first,
                         result |-> RegistryOf(definitions.doc, first)]
  /\ UNCHANGED <<setterVars, online, IntervalRounds, cancelTick, fieldDef, history, cancelled,
                 alive, exitCode, fault, mpc, gpc, tickC, round, tick, tier, catIdx, status,
                 pending, call, prevCall, fetched, published, intervalItems, mainItems, raw,
                 parsed, configFile, loaded, definitions, stages>>

NextLoad == LoadFieldDefinitionsCall

SpecLoad == InitLoad /\ [][NextLoad]_vars

(***************************************************************************)
(* The startup of main: LoadConfig, LoadFieldDefinitions, NewMQTTClient    *)
(* and NewBridge, each followed by os.Exit when it returns an error, then  *)
(* the two go statements.  Whether a step succeeds is up to the file, the  *)
(* device and the broker, so each step has both outcomes.                  *)
(***************************************************************************)
\* what the startup steps of main leave alone
afterStartup == <<IntervalRounds, fieldDef, history, cancelled, fault, tickC, round, tick, tier,
                  catIdx, status, pending, call, prevCall, fetched, published, cancelTick,
                  intervalItems, mainItems, online, subscriptions, cmdCount, lastCmd,
                  raw, parsed, loading>>

\* the statement of main that follows a successful step
NextStage(stage) ==
  CASE stage = "config" -> "fielddefs"
    [] stage = "fielddefs" -> "mqtt"
    [] stage = "mqtt" -> "bridge"
    [] stage = "bridge" -> "goGetter"

\* if err != nil { slog.Error(...); os.Exit(code) }
StartupFailed_GoesOn(stage, code) ==
  /\ mpc' = NextStage(stage)
  /\ UNCHANGED <<alive, exitCode, stages>>

StartupFailed(stage, code) ==
  /\ Exit(code)
  /\ UNCHANGED <<mpc, stages>>

\* one startup step of main: it returns nil and main goes on, or it returns
\* an error and main exits with the code
StartupStep(stage, code) ==
  /\ alive
  /\ mpc = stage
  /\ \/ /\ stages' = Append(stages, stage)
        /\ mpc' = NextStage(stage)
        /\ UNCHANGED <<alive, exitCode>>
     \/ StartupFailed(stage, code)
  /\ UNCHANGED <<afterStartup, gpc, spc>>

\* cfg, err := LoadConfig(*configPath)
Main_LoadConfig == StartupStep("config", 1)

\* fieldDefinitions, err := LoadFieldDefinitions(gekko)
Main_LoadFieldDefinitions == StartupStep("fielddefs", 2)

\* mqtt, err := NewMQTTClient(cfg.MQTT)
Main_NewMQTTClient == StartupStep("mqtt", 1)

\* bridge, err := NewBridge(cfg, gekko, mqtt, fieldDefinitions)
Main_NewBridge == StartupStep("bridge", 1)

\* go bridge.RunGetter()
Main_GoGetter ==
  /\ alive
  /\ mpc = "goGetter"
  /\ mpc' = "goSetter"
  /\ gpc' = "start"
  /\ UNCHANGED <<afterStartup, alive, exitCode, stages, spc>>

\* go bridge.RunSetter()
Main_GoSetter ==
  /\ alive
  /\ mpc = "goSetter"
  /\ mpc' = "wait"
  /\ spc' = "start"
  /\ UNCHANGED <<afterStartup, alive, exitCode, stages, gpc>>

\* main is at its first statement and neither loop exists yet
InitStartup ==
  /\ InitFields
  /\ fieldDef = FieldDefinitions
  /\ mpc = "config"
  /\ gpc = "unborn"
  /\ spc = "unborn"
  /\ stages = <<>>
  /\ \E cfg \in BridgeConfigs :
       /\ intervalItems = cfg.IntervalItems
       /\ mainItems = cfg.MainItems
  /\ raw = <<>>
  /\ parsed = NotParsed
  /\ NoLoading

\* the process from the first statement of main on, without inbound commands
NextStartup ==
  \/ Main_LoadConfig
  \/ Main_LoadFieldDefinitions
  \/ Main_NewMQTTClient
  \/ Main_NewBridge
  \/ Main_GoGetter
  \/ Main_GoSetter
  \/ NextLoops

SpecStartup == InitStartup /\ [][NextStartup]_vars

(***************************************************************************)
(* The poller on a device whose names hold the character '/'.  Item keys   *)
(* are the keys of the device's JSON objects and field names are the first *)
(* word of a format segment; neither is restricted to a character set.     *)
(***************************************************************************)
S_item0x == S_item0 \o <<"/","x">>
S_y == <<"y">>
S_xy == <<"x","/","y">>

\* the registry of a device whose format for "blinds" is "y int[];x/y int[]"
SlashDefinitions == (S_blinds :> <<FieldDef(S_y, "int"), FieldDef(S_xy, "int")>>)

\* the value strings of its items
SlashRaw == { <<"5",";","5">>, <<"5",";","7">> }

\* its status documents: the items "item0" and "item0/x"
SlashDevice ==
  S_blinds :>
    {(S_item0 :> ItemWithValue(r1)) @@ (S_item0x :> ItemWithValue(r2)) :
       r1 \in SlashRaw, r2 \in SlashRaw}

\* the bridge after startup with that registry, polling "blinds" every tick
InitSlash ==
  /\ InitFields
  /\ fieldDef = SlashDefinitions
  /\ mpc = "wait"
  /\ gpc = "start"
  /\ spc = "start"
  /\ stages = StartupStages
  /\ intervalItems = <<S_blinds>>
  /\ mainItems = <<>>
  /\ raw = <<>>
  /\ parsed = NotParsed
  /\ NoLoading

\* main and RunGetter against that device
NextSlash ==
  \/ Main_Stop
  \/ Main_Return
  \/ RunGetter_Start
  \/ Ticker_Fire
  \/ RunGetter_Done
  \/ RunGetter_Tick
  \/ Poll_Begin
  \/ Poll_Rounds
  \/ PollCategories_Fetch(SlashDevice)
  \/ PollCategories_Item
  \/ PollCategories_Time
  \/ ProcessItem_Field
  \/ ProcessItem_Json
  \/ ProcessItem_Return

SpecSlash == InitSlash /\ [][NextSlash]_vars

(***************************************************************************)
(* The poller with one category in both tiers: with IntervalRounds = 1     *)
(* every tick walks both tiers, with IntervalRounds = 2 every second tick. *)
(***************************************************************************)
\* the value strings of "blinds": two that decode, one whose third token is
\* not a number
BothRaw ==
  { <<"5","0",";","r",";","4","5",".","5">>,
    <<"7","5",";","r",";","4","5",".","5">>,
    <<"7","5",";","r",";","q">> }

\* the device: it answers a fetch of "blinds" with one of these documents (or
\* without the category)
BothDevice == S_blinds :> {(S_item0 :> ItemWithValue(r)) : r \in BothRaw}

\* the bridge after startup with "blinds" as interval item and as main item
InitBoth ==
  /\ InitState
  /\ intervalItems = <<S_blinds>>
  /\ mainItems = <<S_blinds>>
  /\ raw = <<>>
  /\ parsed = NotParsed
  /\ NoLoading

\* main and RunGetter against that device
NextBoth ==
  \/ Main_Stop
  \/ Main_Return
  \/ RunGetter_Start
  \/ Ticker_Fire
  \/ RunGetter_Done
  \/ RunGetter_Tick
  \/ Poll_Begin
  \/ Poll_Rounds
  \/ PollCategories_Fetch(BothDevice)
  \/ PollCategories_Item
  \/ PollCategories_Time
  \/ ProcessItem_Field
  \/ ProcessItem_Json
  \/ ProcessItem_Return

SpecBoth == InitBoth /\ [][NextBoth]_vars

(***************************************************************************)
(* Vocabulary of the properties.                                           *)
(***************************************************************************)
\* the messages the processItem call in progress has published so far
CallMessages == SubSeq(published, call.pubStart + 1, Len(published))

\* "{category}/{item}/{field}" for the call in progress
CallKey(name) == call.category \o <<"/">> \o call.item \o <<"/">> \o name

\* "{name}/{category}/{item}/get/{field}" for the call in progress
CallTopic(name) ==
  GekkoName \o <<"/">> \o call.category \o <<"/">> \o call.item
            \o <<"/","g","e","t","/">> \o name

\* positions that have both a descriptor and a token
CallPositions ==
  {i \in 1..Len(call.fields) : i <= Len(call.values)}

\* a processItem call that got past its early returns has just finished
CallReturned == alive /\ gpc = "return" /\ call.active /\ ~call.early

\* the value the call decoded for this field differs from what the history
\* held when the call began, or the history held nothing
ChangedInCall(name) ==
  \/ CallKey(name) \notin DOMAIN call.histBefore
  \/ call.histBefore[CallKey(name)] # call.itemData[name]

\* indices of the aggregate documents among the call's messages
JsonIndices == {k \in 1..Len(CallMessages) : CallMessages[k].api = "PublishJSON"}

\* indices of the scalar publishes of one field among the call's messages
ScalarIndices(name) ==
  {k \in 1..Len(CallMessages) :
     CallMessages[k].api = "Publish" /\ CallMessages[k].topic = CallTopic(name)}

(***************************************************************************)
(* C1.  A field that processItem converts is published as one scalar on    *)
(* {name}/{category}/{item}/get/{field} and written to the history exactly *)
(* when the history has no entry for it or holds a different value;        *)
(* otherwise nothing is published and the history stays as it was.         *)
(***************************************************************************)
C1_ScalarIffChanged ==
  [][ ( /\ gpc = "field"
        /\ alive /\ alive'
        /\ DOMAIN call'.itemData # DOMAIN call.itemData )
      =>
      LET name == CHOOSE n \in DOMAIN call'.itemData : n \notin DOMAIN call.itemData
          v == call'.itemData[name]
          key == CallKey(name)
      IN IF key \notin DOMAIN history \/ history[key] # v
         THEN /\ published' = Append(published,
                                     [api |-> "Publish", topic |-> CallTopic(name), payload |-> v])
              /\ DOMAIN history' = DOMAIN history \cup {key}
              /\ history'[key] = v
              /\ \A k \in DOMAIN history : k # key => history'[k] = history[k]
         ELSE /\ published' = published
              /\ history' = history
    ]_vars

\* a call has returned in which one field was suppressed as a duplicate and
\* another was published over a different stored value
C1_Witness ==
  /\ CallReturned
  /\ \E n1, n2 \in DOMAIN call.itemData :
       /\ ~ChangedInCall(n1)
       /\ ScalarIndices(n1) = {}
       /\ CallKey(n2) \in DOMAIN call.histBefore
       /\ ChangedInCall(n2)
       /\ ScalarIndices(n2) # {}

(***************************************************************************)
(* C2.  A processItem call that directly follows a call with the same      *)
(* category, item and sumstate publishes nothing (no scalar, no aggregate) *)
(* and leaves the history unchanged.                                       *)
(***************************************************************************)
C2_RepeatIsSilent ==
  ( /\ alive /\ gpc = "return" /\ call.active
    /\ prevCall.active
    /\ prevCall.category = call.category
    /\ prevCall.item = call.item
    /\ prevCall.sumstate = call.sumstate )
  => /\ CallMessages = <<>>
     /\ history = call.histBefore

\* the repeated call decoded at least two fields
C2_Witness ==
  /\ CallReturned
  /\ prevCall.active
  /\ prevCall.category = call.category
  /\ prevCall.item = call.item
  /\ prevCall.sumstate = call.sumstate
  /\ Cardinality(DOMAIN call.itemData) >= 2

(***************************************************************************)
(* C3.  A processItem call that returns has published the aggregate        *)
(* document on {name}/{category}/{item}/get/json exactly once, as its last *)
(* message, if a field changed, and not at all if no field changed.        *)
(***************************************************************************)
C3_AggregateOnceIffChanged ==
  CallReturned =>
    IF \E name \in DOMAIN call.itemData : ChangedInCall(name)
    THEN /\ JsonIndices = {Len(CallMessages)}
         /\ CallMessages[Len(CallMessages)].topic =
              GekkoName \o <<"/">> \o call.category \o <<"/">> \o call.item
                        \o <<"/","g","e","t","/","j","s","o","n">>
    ELSE JsonIndices = {}

\* an aggregate document published after two scalars
C3_Witness ==
  /\ CallReturned
  /\ Len(CallMessages) = 3
  /\ JsonIndices = {3}

(***************************************************************************)
(* C4.  Every aggregate document a call publishes maps each field the call *)
(* converted to its decoded value, changed or not, and has a timestamp key *)
(* holding the clock reading.                                              *)
(***************************************************************************)
C4_AggregateHoldsAllFields ==
  (alive /\ call.active) =>
    \A k \in JsonIndices :
      LET doc == CallMessages[k].payload IN
      /\ \A i \in CallPositions :
           ( /\ call.fields[i].Type # ""
             /\ call.fields[i].Name # <<>>
             /\ call.values[i] # <<>> )
           => /\ call.fields[i].Name \in DOMAIN doc
              /\ doc[call.fields[i].Name] =
                   Convert(call.fields[i].Type, call.values[i]).value
      /\ S_timestamp \in DOMAIN doc
      /\ doc[S_timestamp] = UnixNow

\* an aggregate document that carries a field whose value did not change
C4_Witness ==
  /\ CallReturned
  /\ \E k \in JsonIndices :
       \E name \in DOMAIN call.itemData :
         /\ ~ChangedInCall(name)
         /\ name \in DOMAIN CallMessages[k].payload

(***************************************************************************)
(* C5.  An empty token is neither published nor recorded: the history      *)
(* entry of its field is what it was when the call began (absent or the    *)
(* old value), no scalar is published for it and no aggregate document     *)
(* holds it.                                                               *)
(***************************************************************************)
C5_EmptyTokenUntouched ==
  (call.active /\ ~call.early) =>
    \A i \in CallPositions :
      (call.values[i] = <<>> /\ call.fields[i].Name # <<>>) =>
        LET name == call.fields[i].Name
            key == CallKey(name)
        IN /\ (key \in DOMAIN history) = (key \in DOMAIN call.histBefore)
           /\ key \in DOMAIN history => history[key] = call.histBefore[key]
           /\ ScalarIndices(name) = {}
           /\ \A k \in JsonIndices : name \notin DOMAIN CallMessages[k].payload

\* a returned call with an empty token for a field that had a recorded
\* value, while another field of the call was published
C5_Witness ==
  /\ CallReturned
  /\ \E i \in CallPositions :
       /\ call.values[i] = <<>>
       /\ call.fields[i].Type # ""
       /\ CallKey(call.fields[i].Name) \in DOMAIN call.histBefore
  /\ JsonIndices # {}

(***************************************************************************)
(* C6.  Alignment is by position: after a call returns, the history entry  *)
(* of descriptor i holds the decoding of token i, and a reserved           *)
(* descriptor at k consumes token k without a publish or a history entry.  *)
(***************************************************************************)
C6_AlignedByPosition ==
  CallReturned =>
    \A i \in CallPositions :
      LET name == call.fields[i].Name
          key == CallKey(name)
      IN IF call.fields[i].Type = ""
         THEN /\ key \notin DOMAIN history
              /\ ScalarIndices(name) = {}
              /\ \A k \in JsonIndices : name \notin DOMAIN CallMessages[k].payload
         ELSE call.values[i] # <<>> =>
                /\ key \in DOMAIN history
                /\ history[key] = Convert(call.fields[i].Type, call.values[i]).value

\* a returned call whose schema has a reserved descriptor with a non-empty
\* token before a decoded field
C6_Witness ==
  /\ CallReturned
  /\ \E k, j \in CallPositions :
       /\ k < j
       /\ call.fields[k].Type = ""
       /\ call.values[k] # <<>>
       /\ call.fields[j].Name \in DOMAIN call.itemData
       /\ ScalarIndices(call.fields[j].Name) # {}

(***************************************************************************)
(* C7.  processItem for a category without a schema publishes nothing,     *)
(* leaves the history unchanged and does not end the process.              *)
(***************************************************************************)
C7_UnknownCategorySilent ==
  (call.active /\ call.category \notin DOMAIN fieldDef) =>
    /\ CallMessages = <<>>
    /\ history = call.histBefore
    /\ alive \/ mpc = "exited"

\* such a call has returned while the history holds entries
C7_Witness ==
  /\ alive
  /\ gpc = "return"
  /\ call.active
  /\ call.category \notin DOMAIN fieldDef
  /\ call.sumstate.hasValue
  /\ DOMAIN history # {}

(***************************************************************************)
(* C8.  With ticks numbered from 1: a slow-tier fetch happens only on a    *)
(* tick that is a multiple of IntervalRounds, and a tick that has run to   *)
(* its end has fetched every fast-tier category, and every slow-tier       *)
(* category exactly if the tick is a multiple of IntervalRounds.           *)
(***************************************************************************)
C8_SlowTierEveryNth ==
  /\ \A f \in fetched : f[1] = "slow" => tick % IntervalRounds = 0
  /\ (gpc \in {"select", "stopped"} /\ tick >= 1) =>
       fetched =
         {<<"fast", IntervalItems[k]>> : k \in 1..Len(IntervalItems)}
         \cup (IF tick % IntervalRounds = 0
               THEN {<<"slow", MainItems[k]>> : k \in 1..Len(MainItems)}
               ELSE {})

\* with IntervalRounds = 2 the second tick has fetched the slow tier
C8_Witness ==
  /\ IntervalRounds = 2
  /\ tick = 2
  /\ gpc = "select"
  /\ <<"slow", S_vents>> \in fetched

(***************************************************************************)
(* C9.  Once the context is cancelled, RunGetter at its select starts no   *)
(* new poll tick, also when ticker.C holds a tick at that moment.          *)
(***************************************************************************)
C9_NoTickAfterCancel ==
  [][ (alive /\ cancelled /\ gpc = "select") => gpc' # "poll" ]_vars

(***************************************************************************)
(* C10.  A tick in progress when the cancellation arrives runs to its end  *)
(* before the process ends on main's shutdown path: when main has          *)
(* returned, RunGetter is not inside a tick.                               *)
(***************************************************************************)
C10_TickCompletesBeforeExit ==
  (mpc = "exited" /\ cancelTick # 0 /\ tick = cancelTick) => ~InTick

(***************************************************************************)
(* C11: once Stop() has been called, RunGetter stops running and RunSetter *)
(* stops running: each returns, unless the process has ended before it     *)
(* could; and Stop() can always be completed in one step by main, whatever *)
(* the two loops are doing.                                                *)
(***************************************************************************)
C11_StopStopsBothLoops ==
  /\ cancelled ~> ((gpc = "stopped" /\ spc = "stopped") \/ ~alive)
  /\ []((alive /\ mpc = "wait") => ENABLED Main_Stop)

\* both loops have returned after Stop() while the process was still there
C11_Witness ==
  /\ cancelled
  /\ alive
  /\ gpc = "stopped"
  /\ spc = "stopped"

\* how often the online marker `name` of the device G has been published
OnlineCount(name) ==
  LET topic == GekkoName \o <<"/">> \o name
  IN IF topic \in DOMAIN online THEN online[topic] ELSE 0

\* RunGetter has fetched or published something of the device's status
GetterActed ==
  \/ tick > 0
  \/ fetched # {}
  \/ history # EmptyMap
  \/ \E k \in 1..Len(published) : published[k].topic # GekkoName \o <<"/">> \o S_getter_online

(***************************************************************************)
(* C12: each loop publishes its online marker exactly once, and first:     *)
(* G/getter_online has been published once as soon as RunGetter has left   *)
(* its first statement and whenever it has fetched or published any        *)
(* status; G/setter_online has been published once as soon as RunSetter    *)
(* has left its first statement and whenever a subscription exists; and    *)
(* neither marker is ever published a second time.                         *)
(***************************************************************************)
C12_OnlineMarkerFirstAndOnce ==
  /\ OnlineCount(S_getter_online) = (IF gpc = "start" THEN 0 ELSE 1)
  /\ OnlineCount(S_setter_online) = (IF spc = "start" THEN 0 ELSE 1)
  /\ GetterActed => OnlineCount(S_getter_online) = 1
  /\ Len(subscriptions) > 0 => OnlineCount(S_setter_online) = 1

\* both loops are past their marker: a second tick runs and a subscription exists
C12_Witness ==
  /\ OnlineCount(S_getter_online) = 1
  /\ OnlineCount(S_setter_online) = 1
  /\ tick = 2
  /\ fetched # {}
  /\ Len(subscriptions) > 0

\* pollCategories is between a fetch that gave it the category's map and the
\* end of that category
InCategory == gpc \in {"items", "field", "return"}

\* G/<category>/get/time
CategoryTimeTopic(category) == GekkoName \o <<"/">> \o category \o <<"/">> \o S_get \o <<"/">> \o S_time

\* this step's only publish is the timestamp of the category being walked,
\* the first one since the fetch, put after everything published since the
\* fetch
TimeIsPublishedLast ==
  /\ published' = Append(published,
                         [api |-> "Publish",
                          topic |-> CategoryTimeTopic(TierList[catIdx]),
                          payload |-> UnixNow])
  /\ \A k \in 1..Len(published) : published[k].topic # CategoryTimeTopic(TierList[catIdx])

\* in this step pollCategories is done with a category it has fetched: it
\* goes on to the next category or returns
CategoryDone ==
  /\ alive'
  /\ gpc \in {"fetch", "items"}
  /\ gpc' \in {"fetch", "rounds", "select"}
  /\ catIdx' # catIdx \/ gpc' # "fetch"

(***************************************************************************)
(* C13 as claimed: every successful fetch of a category, whatever the      *)
(* document holds, is followed by the publish of the category timestamp:   *)
(* pollCategories is never done with a fetched category, and the process   *)
(* never ends on a value of the fetched document, without that publish.    *)
(***************************************************************************)
C13_TimeAfterEveryFetch ==
  [][ (CategoryDone \/ (fault = "none" /\ fault' = "convert")) => TimeIsPublishedLast ]_vars

(***************************************************************************)
(* C13 amended: a fetch whose answer holds the category as a map, and      *)
(* whose items are processed without a fatal exit, is followed by exactly  *)
(* one publish on G/<category>/get/time, which comes after every scalar    *)
(* and aggregate publish of that category in that fetch: the walk of the   *)
(* category is left in no other way while the process lives.               *)
(***************************************************************************)
C13_TimeAfterProcessedFetch ==
  [][ (InCategory /\ ~InCategory' /\ alive') => TimeIsPublishedLast ]_vars

\* the walk of "blinds" is over: a scalar, the aggregate and then the timestamp
C13_Witness ==
  /\ ~InCategory
  /\ Len(published) >= 3
  /\ published[Len(published)].topic = CategoryTimeTopic(S_blinds)
  /\ published[Len(published) - 1].api = "PublishJSON"
  /\ published[1].api = "Publish"

\* the "/"-separated segments of the topic of the last command
CmdSegments == Split(lastCmd.topic, "/")

(***************************************************************************)
(* C14: a command whose topic has at least 4 segments makes exactly one    *)
(* SetValue call; the topic is <prefix>/<category>/<item>/<last segment>   *)
(* for the category and item of that call and a prefix of one or more      *)
(* segments, and the value of the call is the payload.                     *)
(***************************************************************************)
C14_RoutesFromTopicEnd ==
  (lastCmd.active /\ Len(CmdSegments) >= 4) =>
    LET n == Len(CmdSegments) IN
    /\ Len(lastCmd.calls) = 1
    /\ lastCmd.topic = JoinPath(SubSeq(CmdSegments, 1, n - 3)
                                \o <<lastCmd.calls[1].category, lastCmd.calls[1].item,
                                      CmdSegments[n]>>)
    /\ lastCmd.calls[1].value = lastCmd.payload

\* a command on r/G/vents/item1/set has been forwarded
C14_Witness ==
  /\ lastCmd.active
  /\ alive
  /\ Len(CmdSegments) = 5
  /\ lastCmd.calls = <<[category |-> S_vents, item |-> S_item1, value |-> <<"5","0">>]>>

(***************************************************************************)
(* C15: a command whose topic has fewer than 4 segments makes no SetValue  *)
(* call and ends the process with exit code 8.                             *)
(***************************************************************************)
C15_ShortTopicIsFatal ==
  (lastCmd.active /\ Len(CmdSegments) < 4) =>
    /\ lastCmd.calls = <<>>
    /\ ~alive
    /\ exitCode = 8

\* a command on blinds/item0/set has ended the process
C15_Witness ==
  /\ lastCmd.active
  /\ Len(CmdSegments) = 3
  /\ exitCode = 8

\* the outcome codes as documented
DocumentedCode ==
  [c \in FaultClasses |->
     IF c = "convert" THEN 5
     ELSE IF c = "publish" THEN 6
     ELSE IF c = "subscribe" THEN 7
     ELSE IF c = "topic" THEN 8
     ELSE IF c = "setvalue" THEN 9
     ELSE 11]

(***************************************************************************)
(* C16: a runtime fault ends the process in the step in which it occurs,   *)
(* with the documented code of its class (conversion 5, publish 6,         *)
(* subscribe 7, topic 8, SetValue 9, fetch 11), distinct classes leave     *)
(* with distinct codes, and once the process has ended no step of any      *)
(* loop follows: nothing is retried and no poll step runs.                 *)
(***************************************************************************)
C16_FailFastWithClassCode ==
  /\ [](fault # "none" => (~alive /\ fault \in FaultClasses /\ exitCode = DocumentedCode[fault]))
  /\ [](\A a, b \in FaultClasses : a # b => ExitCode(a) # ExitCode(b))
  /\ [][alive]_vars

\* a conversion failure has ended the process while subscriptions existed
C16_Witness ==
  /\ fault = "convert"
  /\ exitCode = 5
  /\ ~alive
  /\ Len(subscriptions) > 0

(***************************************************************************)
(* C17: when SetValue has returned an error in handleSetCommand the whole  *)
(* process has ended with exit code 9, and no step follows: no fetch, no   *)
(* publish and no device write, by the handler or by the Poller.           *)
(***************************************************************************)
C17_SetValueFailureEndsBridge ==
  /\ []((lastCmd.active /\ lastCmd.failed) => (~alive /\ exitCode = 9))
  /\ [][~(lastCmd.active /\ lastCmd.failed)]_vars

\* SetValue has failed while RunGetter was in the middle of a tick
C17_Witness ==
  /\ lastCmd.active
  /\ lastCmd.failed
  /\ exitCode = 9
  /\ gpc = "field"
  /\ tick = 2

\* the categories named in either tier
ConfiguredCategories ==
  {intervalItems[k] : k \in 1..Len(intervalItems)} \cup {mainItems[k] : k \in 1..Len(mainItems)}

\* G/<category>/+/set
CommandFilter(category) == GekkoName \o <<"/">> \o category \o <<"/", "+", "/">> \o S_set

(***************************************************************************)
(* C18: RunSetter never subscribes to the same topic twice, every          *)
(* subscription is G/<category>/+/set for a category named in a tier, and  *)
(* once RunSetter waits for the shutdown there is one subscription for     *)
(* each category named in either tier.                                     *)
(***************************************************************************)
C18_OneSubscriptionPerCategory ==
  /\ \A i, j \in 1..Len(subscriptions) : i # j => subscriptions[i] # subscriptions[j]
  /\ \A i \in 1..Len(subscriptions) :
       \E c \in ConfiguredCategories : subscriptions[i] = CommandFilter(c)
  /\ spc \in {"wait", "stopped"} =>
       /\ Len(subscriptions) = Cardinality(ConfiguredCategories)
       /\ \A c \in ConfiguredCategories :
            \E i \in 1..Len(subscriptions) : subscriptions[i] = CommandFilter(c)

\* "lights" is in both tiers and RunSetter has made its two subscriptions
C18_Witness ==
  /\ spc = "wait"
  /\ intervalItems = <<S_lights, S_blinds>>
  /\ mainItems = <<S_lights>>
  /\ subscriptions = <<CommandFilter(S_blinds), CommandFilter(S_lights)>>

(***************************************************************************)
(* C19: for a segment "<name> [<prefix>:]<type>[...]" parseFormatField     *)
(* returns the name as given and the kind of the type token: int and enum  *)
(* give int, float gives float, string gives string, null gives the empty  *)
(* type with the name kept; any other type token gives an error.  White    *)
(* space around the segment changes nothing.                               *)
(***************************************************************************)
C19_NameKeptKindFromToken ==
  parsed.done =>
    \A n \in FormatNames, p \in FormatPrefixes, t \in FormatTypes, c \in FormatConstraints :
      TrimSpace(raw) = FormatField(n, p, t, c) =>
        LET r == parsed.result IN
        IF t \in {S_int, S_enum} THEN r.ok /\ r.field = [Name |-> n, Type |-> "int"]
        ELSE IF t = S_float THEN r.ok /\ r.field = [Name |-> n, Type |-> "float"]
        ELSE IF t = S_string THEN r.ok /\ r.field = [Name |-> n, Type |-> "string"]
        ELSE IF t = S_null THEN r.ok /\ r.field = [Name |-> n, Type |-> ""]
        ELSE ~r.ok

\* "u:[1] #z:enum[0:1]" has been parsed as the int field u:[1]
C19_Witness ==
  /\ parsed.done
  /\ raw = FormatField(<<"u",":","[","1","]">>, <<"#","z",":">>, S_enum, <<"[","0",":","1","]">>)
  /\ parsed.result.ok
  /\ parsed.result.field = [Name |-> <<"u",":","[","1","]">>, Type |-> "int"]

(***************************************************************************)
(* C20: the result for "<name> [<prefix>:]<type><constraints>" is the      *)
(* result for "<name> <type>[]": neither the vendor prefix before the      *)
(* bracket nor a colon inside or after the constraint list changes it, and *)
(* an unknown type token is reported as it stands before the bracket,      *)
(* without the prefix.                                                     *)
(***************************************************************************)
C20_TypeTokenBeforeBracket ==
  parsed.done =>
    \A n \in FormatNames, p \in FormatPrefixes, t \in FormatTypes, c \in FormatConstraints :
      raw = FormatField(n, p, t, c) =>
        /\ parsed.result = ParseFormatField(FormatField(n, <<>>, t, <<"[","]">>))
        /\ ~parsed.result.ok => parsed.result.arg = t

\* "pos #z:string[a](u:c)" has been parsed as the string field pos
C20_Witness ==
  /\ parsed.done
  /\ raw = FormatField(<<"p","o","s">>, <<"#","z",":">>, S_string, <<"[","a","]","(","u",":","c",")">>)
  /\ parsed.result.ok
  /\ parsed.result.field = [Name |-> <<"p","o","s">>, Type |-> "string"]

\* the segment being parsed holds nothing but white space
RawIsBlank == \A k \in 1..Len(raw) : raw[k] \in {" ", "\t", "\n"}

\* the segment being parsed without the white space around it
RawData == TrimSpace(raw)

(***************************************************************************)
(* C21: parseFormatField returns the empty descriptor without error for an *)
(* empty or white-space-only segment; it returns an error for a non-blank  *)
(* segment with no space in it, and for one whose text after the first     *)
(* space holds no "["; and a descriptor it returns without error for a     *)
(* non-blank segment has a non-empty name.                                 *)
(***************************************************************************)
C21_ErrorsAndSentinel ==
  parsed.done =>
    LET r == parsed.result IN
    /\ RawIsBlank => (r.ok /\ r.field = [Name |-> <<>>, Type |-> ""])
    /\ (~RawIsBlank /\ \A k \in 1..Len(RawData) : RawData[k] # " ") => ~r.ok
    /\ (\E k \in 1..Len(RawData) :
          /\ RawData[k] = " "
          /\ \A j \in 1..(k - 1) : RawData[j] # " "
          /\ \A j \in (k + 1)..Len(RawData) : RawData[j] # "[") => ~r.ok
    /\ (~RawIsBlank /\ r.ok) => r.field.Name # <<>>

\* " int[0]" has been refused: what is left of it after trimming has no space
C21_Witness ==
  /\ parsed.done
  /\ raw = <<" ","i","n","t","[","0","]">>
  /\ ~parsed.result.ok
  /\ parsed.result.err = "invalid format definition"

(***************************************************************************)
(* C22: every configuration LoadConfig returns without error has           *)
(* Interval > 0, IntervalRounds >= 1, at least one non-empty tier and a    *)
(* non-empty host, username and password; a zero or missing interval has   *)
(* become 5.0 and a zero or missing interval_rounds 4, and a negative      *)
(* value of either is rejected.                                            *)
(***************************************************************************)
\* LoadConfig has returned a configuration
ConfigReturned == loaded.done /\ loaded.result.ok

\* the struct toml.Unmarshal decoded from the file
Decoded == configFile.cfg.MyGekko

\* x > 0 on a float64
FloatPositive(f) == f.special = "" /\ f.num > 0

C22_ReturnedConfigIsValid ==
  /\ ConfigReturned =>
       LET g == loaded.result.cfg.MyGekko IN
       /\ FloatPositive(g.Interval)
       /\ g.IntervalRounds >= 1
       /\ Len(g.IntervalItems) > 0 \/ Len(g.MainItems) > 0
       /\ g.Host # <<>> /\ g.Username # <<>> /\ g.Password # <<>>
       /\ FloatIsZero(Decoded.Interval) => g.Interval = FloatValue(5, 0)
       /\ Decoded.IntervalRounds = 0 => g.IntervalRounds = 4
  /\ ( /\ loaded.done
       /\ configFile.readable
       /\ configFile.wellFormed
       /\ \/ Decoded.IntervalRounds < 0
          \/ Decoded.Interval.special = "" /\ Decoded.Interval.num < 0 )
     => ~loaded.result.ok

(***************************************************************************)
(* C23: no status fetch, no MQTT publish and no subscription happens       *)
(* unless config loading, field-definition loading, MQTT connection and    *)
(* bridge construction have all succeeded, in that order; a startup step   *)
(* that fails ends the process before either loop has started.             *)
(***************************************************************************)
\* a loop exists or has left a trace: a fetch, a publish or a subscription
LoopActivity ==
  \/ gpc # "unborn"
  \/ spc # "unborn"
  \/ tick > 0
  \/ fetched # {}
  \/ published # <<>>
  \/ online # EmptyMap
  \/ subscriptions # <<>>

\* the startup steps done so far are the first ones of main, in its order
StagesInOrder ==
  /\ Len(stages) <= Len(StartupStages)
  /\ stages = SubSeq(StartupStages, 1, Len(stages))

C23_NoLoopBeforeStartup ==
  /\ StagesInOrder
  /\ LoopActivity => stages = StartupStages
  /\ stages # StartupStages =>
       \/ alive /\ mpc = StartupStages[Len(stages) + 1]
       \/ ~alive /\ exitCode \in {1, 2} /\ ~LoopActivity

\* both kinds of run: a poll has published and RunSetter has subscribed after
\* a full startup
C23_Witness ==
  /\ stages = StartupStages
  /\ published # <<>>
  /\ subscriptions # <<>>

(***************************************************************************)
(* C24: LoadFieldDefinitions leaves out a category that has no member      *)
(* whose key begins with "item" and a category whose format yields no      *)
(* parsed non-empty field; a segment that fails to parse is passed over on *)
(* its own: the segments that do parse are kept, in their order, and the   *)
(* load does not fail.                                                     *)
(***************************************************************************)
\* LoadFieldDefinitions has returned after GetDefinitions answered
LoadReturned == registry.done /\ definitions.ok

\* the segments of the format string the load read for the category
SegmentsOf(category) ==
  Split(definitions.doc[category].members[registry.first[category]].sumstate.format, ";")

\* positions of the segments that parse to a descriptor with a name
GoodSegments(category) ==
  {i \in 1..Len(SegmentsOf(category)) :
     /\ ParseFormatField(SegmentsOf(category)[i]).ok
     /\ ParseFormatField(SegmentsOf(category)[i]).field.Name # <<>>}

\* the position of the k-th good segment
NthGood(category, k) ==
  CHOOSE i \in GoodSegments(category) :
    Cardinality({j \in GoodSegments(category) : j <= i}) = k

\* the category has a member whose key begins with "item"
HasItemMember(catData) ==
  catData.isMap /\ \E k \in DOMAIN catData.members : HasPrefix(k, S_item)

C24_OmitsAndSkips ==
  LoadReturned =>
    /\ registry.ok
    /\ DOMAIN registry.result \subseteq DOMAIN registry.first
    /\ \A c \in DOMAIN definitions.doc :
         /\ ~HasItemMember(definitions.doc[c]) => c \notin DOMAIN registry.result
         /\ c \in DOMAIN registry.first =>
              /\ c \in DOMAIN registry.result <=> GoodSegments(c) # {}
              /\ c \in DOMAIN registry.result =>
                   /\ Len(registry.result[c]) = Cardinality(GoodSegments(c))
                   /\ \A k \in 1..Len(registry.result[c]) :
                        registry.result[c][k] =
                          ParseFormatField(SegmentsOf(c)[NthGood(c, k)]).field

\* a load that kept a category with a failing segment in the middle, and
\* left out one without an item member
C24_Witness ==
  /\ LoadReturned
  /\ S_blinds \in DOMAIN registry.result
  /\ \E i \in 1..Len(SegmentsOf(S_blinds)) :
       /\ ~ParseFormatField(SegmentsOf(S_blinds)[i]).ok
       /\ \E j, k \in GoodSegments(S_blinds) : j < i /\ i < k
  /\ ~HasItemMember(definitions.doc[S_vents])
  /\ S_vents \notin DOMAIN registry.result

(***************************************************************************)
(* C25: in every schema of the registry LoadFieldDefinitions builds,       *)
(* descriptor i is the parse of segment i of the device's ';'-separated    *)
(* format string, so that token i of a value string is decoded with the    *)
(* descriptor of format segment i.                                         *)
(***************************************************************************)
C25_DescriptorIsSegment ==
  ( LoadReturned /\ registry.ok ) =>
    \A c \in DOMAIN registry.result :
      \A i \in 1..Len(registry.result[c]) :
        /\ ParseFormatField(SegmentsOf(c)[i]).ok
        /\ registry.result[c][i] = ParseFormatField(SegmentsOf(c)[i]).field

(***************************************************************************)
(* C26: a processItem call whose value string has fewer tokens than the    *)
(* schema has descriptors publishes nothing for the descriptors past the   *)
(* last token, records nothing for them and leaves them out of the         *)
(* aggregate; with more tokens than descriptors, what is decoded,          *)
(* published and recorded is what the first tokens alone give.             *)
(***************************************************************************)
\* the history entry of the field is as it was when the call began
EntryUntouched(key) ==
  IF key \in DOMAIN call.histBefore
  THEN key \in DOMAIN history /\ history[key] = call.histBefore[key]
  ELSE key \notin DOMAIN history

\* the tokens of the value string the call was given
ValueTokens == Split(call.sumstate.value, ";")

\* positions that have both a descriptor and a token of the value string
TokenPositions == {k \in 1..Len(call.fields) : k <= Len(ValueTokens)}

\* the history keys of the descriptors that have a token
DecodedKeys == {CallKey(call.fields[k].Name) : k \in TokenPositions}

C26_LengthMismatch ==
  CallReturned =>
    /\ \A k \in 1..Len(call.fields) :
         k > Len(ValueTokens) =>
           /\ call.fields[k].Name \notin DOMAIN call.itemData
           /\ ScalarIndices(call.fields[k].Name) = {}
           /\ EntryUntouched(CallKey(call.fields[k].Name))
           /\ \A j \in JsonIndices :
                call.fields[k].Name \notin DOMAIN CallMessages[j].payload
    /\ DOMAIN call.itemData \subseteq {call.fields[k].Name : k \in TokenPositions}
    /\ \A k \in TokenPositions :
         call.fields[k].Name \in DOMAIN call.itemData =>
           call.itemData[call.fields[k].Name]
             = Convert(call.fields[k].Type, ValueTokens[k]).value
    /\ \A j \in 1..Len(CallMessages) :
         \/ j \in JsonIndices
         \/ \E k \in TokenPositions : j \in ScalarIndices(call.fields[k].Name)
    /\ \A key \in (DOMAIN history) \cup (DOMAIN call.histBefore) :
         key \notin DecodedKeys => EntryUntouched(key)

\* a call with one token for three descriptors has published that token
C26_Witness ==
  /\ CallReturned
  /\ Len(ValueTokens) < Len(call.fields)
  /\ \E k \in TokenPositions : ScalarIndices(call.fields[k].Name) # {}
  /\ JsonIndices # {}

(***************************************************************************)
(* C27: the history is written only on the polling path: every step that   *)
(* changes it is a step of processItem inside RunGetter, and no step of    *)
(* RunSetter or of handleSetCommand changes it, so the command handlers    *)
(* that run beside the poller never race with it on the history.           *)
(***************************************************************************)
\* the step is one of RunSetter or of the command handler
SetterStep == spc' # spc \/ subscriptions' # subscriptions \/ cmdCount' # cmdCount
                \/ lastCmd' # lastCmd

C27_HistoryOnlyOnPollingPath ==
  [][ /\ SetterStep => history' = history
      /\ history' # history => ( gpc = "field" /\ ~SetterStep ) ]_vars

\* a command was forwarded while processItem was decoding, and the history
\* holds what the poller recorded
C27_Witness ==
  /\ alive
  /\ lastCmd.active
  /\ lastCmd.calls # <<>>
  /\ gpc = "field"
  /\ call.i > 1
  /\ history # EmptyMap
  /\ history # call.histBefore

(***************************************************************************)
(* C28: the registry is read-only after construction: no step of           *)
(* RunGetter, pollCategories, processItem, RunSetter, handleSetCommand or  *)
(* Stop adds, removes or changes a category schema.                        *)
(***************************************************************************)
C28_RegistryIsReadOnly ==
  [][fieldDef' = fieldDef]_vars

\* the bridge has polled twice, looked up a category without a schema,
\* handled a command and been stopped, and the registry is the one NewBridge
\* was given
C28_Witness ==
  /\ cancelled
  /\ gpc = "stopped"
  /\ spc = "stopped"
  /\ tick >= 2
  /\ lastCmd.active
  /\ prevCall.active
  /\ prevCall.category \notin DOMAIN fieldDef
  /\ fieldDef = FieldDefinitions

(***************************************************************************)
(* C29: an item whose key begins with "group" is never decoded: no         *)
(* processItem call is made for it, no scalar and no aggregate is          *)
(* published for it and the history gets no entry for it, while the other  *)
(* items of the same fetch are decoded.                                    *)
(***************************************************************************)
\* the item key begins with "group"
IsGroupItem(item) == Len(item) >= Len(S_group) /\ SubSeq(item, 1, Len(S_group)) = S_group

\* the range over the fetched catMap has visited every member
WalkFinished == alive /\ gpc = "items" /\ pending = {} /\ status # NoStatus

\* the first token of the item decodes to a value of a named descriptor
FirstFieldDecodes(category, item) ==
  /\ ~IsGroupItem(item)
  /\ status[item].isMap
  /\ status[item].hasSumstate
  /\ status[item].sumstate.isMap
  /\ status[item].sumstate.hasValue
  /\ category \in DOMAIN fieldDef
  /\ fieldDef[category][1].Type # ""
  /\ Split(status[item].sumstate.value, ";")[1] # <<>>

C29_GroupItemsNotDecoded ==
  /\ call.active => ~IsGroupItem(call.item)
  /\ prevCall.active => ~IsGroupItem(prevCall.item)
  /\ \A key \in DOMAIN history : ~IsGroupItem(Split(key, "/")[2])
  /\ \A k \in 1..Len(published) :
       \A j \in 1..Len(Split(published[k].topic, "/")) :
         ~IsGroupItem(Split(published[k].topic, "/")[j])
  /\ WalkFinished =>
       \A item \in DOMAIN status :
         FirstFieldDecodes(TierList[catIdx], item) =>
           LET key == TierList[catIdx] \o <<"/">> \o item \o <<"/">>
                        \o fieldDef[TierList[catIdx]][1].Name
           IN /\ key \in DOMAIN history
              /\ history[key] = Convert(fieldDef[TierList[catIdx]][1].Type,
                                        Split(status[item].sumstate.value, ";")[1]).value

\* a fetch that answered with item0 and group0 has been walked: item0 is in
\* the history and was published
C29_Witness ==
  /\ WalkFinished
  /\ S_group0 \in DOMAIN status
  /\ status[S_group0].hasSumstate
  /\ FirstFieldDecodes(TierList[catIdx], S_item0)
  /\ published # <<>>

(***************************************************************************)
(* C30: different (category, item, field) triples have different history   *)
(* entries, whatever the names are: decoding one triple does not suppress  *)
(* the publish of another triple and does not overwrite the value recorded *)
(* for another triple.  In the first poll every triple is decoded for the  *)
(* first time, so each decoded field is published, and what the previous   *)
(* item recorded is still recorded when the next item has been decoded.    *)
(***************************************************************************)
\* the tokens of the item decoded before this one
PrevTokens == Split(prevCall.sumstate.value, ";")

\* the previous call decoded another item of the same category to the end
PrevDecoded ==
  /\ prevCall.active
  /\ prevCall.category = call.category
  /\ prevCall.item # call.item
  /\ prevCall.sumstate.isMap
  /\ prevCall.sumstate.hasValue
  /\ prevCall.category \in DOMAIN fieldDef

C30_TriplesDoNotInterfere ==
  ( CallReturned /\ tick = 1 ) =>
    /\ \A name \in DOMAIN call.itemData : ScalarIndices(name) # {}
    /\ PrevDecoded =>
         \A k \in 1..Len(call.fields) :
           ( k <= Len(PrevTokens) /\ call.fields[k].Type # "" /\ PrevTokens[k] # <<>> ) =>
             LET key == HistKey(prevCall.category, prevCall.item, call.fields[k].Name) IN
             /\ key \in DOMAIN history
             /\ history[key] = Convert(call.fields[k].Type, PrevTokens[k]).value

(***************************************************************************)
(* C31: as long as the process has not exited, the history has an entry    *)
(* for (category, item, field) exactly if a scalar was published on that   *)
(* field's topic, and the entry is the value of the latest such publish;   *)
(* entries are never removed.  Stated on the steps: the history starts     *)
(* empty with nothing published, every step that keeps the process alive   *)
(* changes one entry exactly when it publishes that value on the entry's   *)
(* topic, and no step removes an entry.                                    *)
(***************************************************************************)
\* the topic is "{name}/{category}/{item}/get/{field}"
IsFieldTopic(topic) ==
  /\ Len(Split(topic, "/")) = 5
  /\ Split(topic, "/")[4] = S_get
  /\ Split(topic, "/")[5] # S_json

\* the history key of the triple a field topic names
KeyOfTopic(topic) ==
  Split(topic, "/")[2] \o <<"/">> \o Split(topic, "/")[3] \o <<"/">> \o Split(topic, "/")[5]

\* the field topic of the triple a history key names
TopicOfKey(key) ==
  GekkoName \o <<"/">> \o Split(key, "/")[1] \o <<"/">> \o Split(key, "/")[2]
            \o <<"/","g","e","t","/">> \o Split(key, "/")[3]

\* the entries the step has created or overwritten
ChangedEntries ==
  {k \in DOMAIN history' : k \notin DOMAIN history \/ history'[k] # history[k]}

\* the step has published one scalar of a field
ScalarPublished ==
  /\ Len(published') = Len(published) + 1
  /\ published'[Len(published')].api = "Publish"
  /\ IsFieldTopic(published'[Len(published')].topic)

C31_HistoryIffPublished ==
  [][ /\ DOMAIN history \subseteq DOMAIN history'
      /\ alive' =>
           /\ ChangedEntries # {} =>
                \E k \in ChangedEntries :
                  /\ ChangedEntries = {k}
                  /\ published' = Append(published,
                                         [api |-> "Publish", topic |-> TopicOfKey(k),
                                          payload |-> history'[k]])
           /\ ScalarPublished =>
                LET m == published'[Len(published')] IN
                /\ KeyOfTopic(m.topic) \in DOMAIN history'
                /\ history'[KeyOfTopic(m.topic)] = m.payload
    ]_vars

\* an entry has been overwritten by a later publish on its topic, and the
\* history holds the value of that publish
C31_Witness ==
  /\ CallReturned
  /\ \E k \in 1..Len(CallMessages) :
       /\ CallMessages[k].api = "Publish"
       /\ IsFieldTopic(CallMessages[k].topic)
       /\ KeyOfTopic(CallMessages[k].topic) \in DOMAIN call.histBefore
       /\ call.histBefore[KeyOfTopic(CallMessages[k].topic)] # CallMessages[k].payload
       /\ history[KeyOfTopic(CallMessages[k].topic)] = CallMessages[k].payload

(***************************************************************************)
(* C32: a well-formed command is forwarded to the device whatever the      *)
(* poller is doing: the handler can be invoked and makes its SetValue call *)
(* before the first poll, inside a poll, between polls and after the       *)
(* poller has returned, and also after Stop(), because cancellation does   *)
(* not unsubscribe; the invocation leaves the poller where it stood.       *)
(***************************************************************************)
\* the step is an invocation of handleSetCommand
CommandStep == cmdCount' # cmdCount

\* the MQTT client has a callback to deliver to and the process runs
Deliverable == alive /\ Len(subscriptions) > 0 /\ cmdCount < MaxCommands

C32_ForwardedInEveryPollerState ==
  /\ [](Deliverable => ENABLED HandleSetCommand)
  /\ [][ CommandStep =>
            /\ Len(Split(lastCmd'.topic, "/")) >= 4 =>
                 /\ Len(lastCmd'.calls) = 1
                 /\ lastCmd'.calls[1].value = lastCmd'.payload
            /\ UNCHANGED <<gpc, tickC, round, tick, tier, catIdx, status, pending, call,
                           history, published, cancelled, spc, subscriptions>>
     ]_vars

\* a command that arrived after Stop(), when both loops had returned, was
\* forwarded
C32_Witness ==
  /\ lastCmd.active
  /\ lastCmd.pollerStopped
  /\ cancelled
  /\ spc = "stopped"
  /\ Len(lastCmd.calls) = 1
  /\ ~lastCmd.failed
  /\ alive

\* the category is listed in both tiers
InBothTiers(category) ==
  /\ \E i \in 1..Len(intervalItems) : intervalItems[i] = category
  /\ \E j \in 1..Len(mainItems) : mainItems[j] = category

\* in this step pollCategories is done with a fetch of a category that is
\* listed in both tiers
BothTierFetchDone == CategoryDone /\ InBothTiers(TierList[catIdx])

\* the slow-tier fetch of a category follows its fast-tier fetch of the same
\* tick
SecondFetch(category) ==
  /\ tier = "slow"
  /\ InBothTiers(category)
  /\ fetched = {<<"fast", category>>, <<"slow", category>>}

\* the item decoded now had the same sumstate when it was decoded last
SameDeviceState ==
  /\ call.active
  /\ prevCall.active
  /\ prevCall.category = call.category
  /\ prevCall.item = call.item
  /\ prevCall.sumstate = call.sumstate

\* the second fetch of an unchanged item publishes nothing
SecondFetchIsQuiet ==
  (call.active /\ SecondFetch(call.category) /\ SameDeviceState) =>
     /\ CallMessages = <<>>
     /\ history = call.histBefore

\* a slow-tier walk of a category of both tiers comes second in its tick
SlowIsSecond ==
  \A c \in {S_blinds, S_vents, S_lights} :
    (InBothTiers(c) /\ <<"slow", c>> \in fetched) => <<"fast", c>> \in fetched

AnsweredFetchDone == BothTierFetchDone /\ InCategory

TickCompleted == gpc = "select"

\* the <<tier, category>> pairs of the fast tier
FastFetches == {<<"fast", intervalItems[i]>> : i \in 1..Len(intervalItems)}

\* every fetch of this step comes in the order of poll(): a fast-tier fetch
\* when no slow-tier fetch of the tick has been made, a slow-tier fetch when
\* every fast-tier category has been fetched
FastBeforeSlow ==
  \A f \in fetched' \ fetched :
    IF f[1] = "fast"
    THEN \A g \in fetched : g[1] = "fast"
    ELSE FastFetches \subseteq fetched

(***************************************************************************)
(* C34: after every completed tick the round counter r satisfies           *)
(* 0 <= r < IntervalRounds, for IntervalRounds in 1..MaxRounds, and within *)
(* a tick every fast-tier fetch comes before every slow-tier fetch.        *)
(***************************************************************************)
C34_RoundInRange ==
  /\ [](TickCompleted => (0 <= round /\ round < IntervalRounds))
  /\ [][FastBeforeSlow]_vars

\* with IntervalRounds = 2 the third tick is over: the counter was reset in
\* the second tick, whose slow tier ran, and counts again
C34_Witness ==
  /\ alive
  /\ TickCompleted
  /\ IntervalRounds = 2
  /\ tick = 3
  /\ round = 1
  /\ fetched = FastFetches

\* the process has ended on a token that failed Integer or Float conversion:
\* the call stands at the position of that token
ConversionFailed ==
  /\ fault = "convert"
  /\ call.active
  /\ call.i \in CallPositions
  /\ call.fields[call.i].Type \in {"int", "float"}
  /\ ~Convert(call.fields[call.i].Type, call.values[call.i]).ok

\* names of the fields the call decoded at positions before the failing one
\* and found changed
ChangedBeforeFailure ==
  {call.fields[k].Name : k \in {j \in 1..(call.i - 1) :
       /\ call.fields[j].Name \in DOMAIN call.itemData
       /\ ChangedInCall(call.fields[j].Name)}}

PossibleRegistries(doc) == {RegistryOf(doc, first) : first \in FirstItems(doc)}

(***************************************************************************)
(* C36: registry construction is deterministic: the registry a run of      *)
(* LoadFieldDefinitions has returned for a definitions document is the     *)
(* registry every run on that document returns, also when the items of a   *)
(* category carry different format strings or only some have a format.     *)
(***************************************************************************)
C36_LoadIsDeterministic ==
  ( LoadReturned /\ registry.ok ) =>
    PossibleRegistries(definitions.doc) = {registry.result}

====
